---- MODULE Spec2Model ----
(***************************************************************************)
(* Verification model of the ECEE-2560 coursework kernels.                 *)
(*                                                                         *)
(*   SpecSudoku : SudokuBoard<N> (8-schcre-4/sudoku_board.h): set_cell,    *)
(*                clear_cell and the four solve variants.                  *)
(*   SpecSudokuClear, SpecTwoBoards : the same board with clear, and two   *)
(*                boards of one type.                                      *)
(*   SpecHeuristic : the board set up along row 0 and column 0, solved by  *)
(*                solve_heuristic.                                         *)
(*   SpecGraph  : Graph + GraphWalker (8-schcre-5/graph.h,                 *)
(*                graph_walker.h): connect, DFS, BFS and Dijkstra.         *)
(*   SpecReuse  : one GraphWalker called on several graphs in turn.        *)
(*   SpecAlgo   : searching and sorting (8-schcre-3/algo_util.h, heap.h).  *)
(*   SpecSortingUtil : selection_sort of 8-schcre-3/sorting_util.h.        *)
(*   SpecMatrix, SpecWords : Matrix and OrdinalWrappingSequenceIter        *)
(*                (8-schcre-3/matrix.h, ordinal_wrapping_sequence.h).      *)
(*   SpecCode   : Code::check_correct / check_incorrect (8-schcre-1).      *)
(*   SpecDeck   : Deck on LinkedList (8-schcre-2/deck.h, linked_list.tpp). *)
(***************************************************************************)
EXTENDS Integers, Sequences, FiniteSets, TLC

VARIABLES
    m_board_entries,    \* SudokuBoard::m_board_entries : cell -> entry (0 = blank)
    m_conflicts,        \* SudokuBoard::m_conflicts     : BoardConflicts<k_dim>
    op,                 \* the member function called last on the board
    ret,                \* its bool result (set_cell: accepted, solve: solved)
    call_count,         \* the CallCount a solve variant returned
    solve_start,        \* the local `start` of the solve variant called last
    b_board_entries,    \* m_board_entries of a second SudokuBoard<N> object, B
    b_conflicts,        \* m_conflicts of the second object
    static_this,        \* per solve variant: the object its static lambda captured
    self,               \* the object the last member function was called on
    fault,              \* "stack_overflow" once a solve recursion never returns
    m_nodes,            \* Graph::m_nodes : number of nodes of the graph
    m_edges,            \* Graph::m_edges : adjacency matrix of optional weights
    m_visited,          \* GraphWalker::m_visited
    m_shortest_paths,   \* GraphWalker::m_shortest_paths
    search,             \* the find_path_* call in progress or finished
    unvisited_indices,  \* find_path_dijkstra: the heap range [heap_start, heap_end)
    result,             \* PathSearchResult returned by the finished search
    range,              \* the elements of the range [start, end) an algorithm works on
    algo,               \* the algorithm called last on the range, and what it returned
    m_entries,          \* Matrix::m_entries : the elements in row-major order
    m_rows,             \* Matrix::m_rows
    m_cols,             \* Matrix::m_cols
    new_dim,            \* the argument of the last Matrix::reshape call
    raised,             \* the exception the last call on the matrix or iterator threw
    m_dir,              \* OrdinalWrappingSequenceIter::m_dir
    m_grid_ref,         \* OrdinalWrappingSequenceIter::m_grid_ref : FALSE is nullptr
    m_curr_center,      \* OrdinalWrappingSequenceIter::m_curr_center
    m_curr_pos,         \* OrdinalWrappingSequenceIter::m_curr_pos
    m_sequence,         \* OrdinalWrappingSequenceIter::m_sequence
    emitted,            \* <<center, direction, length>> of every sequence dereferenced so far
    m_digits,           \* Code::m_digits of the secret code
    guess,              \* Code::m_digits of the guess passed to the check functions
    response,           \* what check_correct and check_incorrect returned
    m_next,             \* BaseNode::m_next_ptr of m_head (node 0) and of every node
    m_value,            \* Node::m_value : the card each node holds
    m_before_end,       \* Deck::m_before_end : the node the iterator points to
    removed,            \* the nodes that have been destroyed
    deck_op             \* the Deck member function called last, with its card

twoBoardVars == <<b_board_entries, b_conflicts, static_this, self, fault>>
sudokuVars == <<m_board_entries, m_conflicts, op, ret, call_count, solve_start,
                twoBoardVars>>
graphVars  == <<m_nodes, m_edges, m_visited, m_shortest_paths, search,
                unvisited_indices, result>>
algoVars   == <<range, algo>>
matrixVars == <<m_entries, m_rows, m_cols, new_dim, raised>>
iterVars   == <<m_dir, m_grid_ref, m_curr_center, m_curr_pos, m_sequence,
                emitted>>
project3Vars == <<algoVars, matrixVars, iterVars>>
codeVars   == <<m_digits, guess, response>>
deckVars   == <<m_next, m_value, m_before_end, removed, deck_op>>
project12Vars == <<codeVars, deckVars>>
vars       == <<sudokuVars, graphVars, project3Vars, project12Vars>>

\* std::nullopt of the std::optional<Coordinate> / std::optional<pair> results.
NullOpt == <<>>

(***************************************************************************)
(* SudokuBoard<N>                                                          *)
(***************************************************************************)

\* Template parameter N of SudokuBoard (block dimension); the model
\* instantiates SudokuBoard<2>.
N == 2

k_dim == N * N

Idx == 0 .. (k_dim - 1)

Coordinate == Idx \X Idx

blank_sentinel == 0

Entries == 1 .. k_dim

index_of(entry) == entry - 1

reverse_index(index) == index + 1

block_index(coord) == N * (coord[1] \div N) + (coord[2] \div N)

\* A value-initialised ConflictSource: table all false, counts all zero.
EmptySource ==
    [table |-> [p \in Idx \X Idx |-> FALSE], counts |-> [i \in Idx |-> 0]]

\* new Conflicts{} : the aggregate is zero-initialised.
EmptyConflicts ==
    [rows |-> EmptySource, cols |-> EmptySource, blocks |-> EmptySource,
     entry_counts |-> [i \in Idx |-> 0]]

\* new Board{} : every cell blank.
EmptyBoard == [c \in Coordinate |-> blank_sentinel]

\* BoardConflicts::set_source. The per-entry counter is touched on every
\* call that flips a flag, whichever source the call is for.
set_source(conf, source, source_index, entry_index, state) ==
    LET conflict_flag == conf[source].table[<<source_index, entry_index>>]
        delta == IF conflict_flag # state THEN (IF state THEN 1 ELSE -1) ELSE 0
    IN  [conf EXCEPT
            ![source].counts[source_index] = @ + delta,
            !.entry_counts[entry_index] = @ + delta,
            ![source].table[<<source_index, entry_index>>] = state]

check_source(conf, source, source_index, entry_index) ==
    conf[source].table[<<source_index, entry_index>>]

\* Mutant of check_legal_move: the block table is not consulted.
check_legal_move_no_block(conf, coord, entry) ==
    LET entry_index == index_of(entry)
    IN  /\ ~check_source(conf, "rows", coord[1], entry_index)
        /\ ~check_source(conf, "cols", coord[2], entry_index)

check_legal_move(conf, coord, entry) ==
    LET entry_index == index_of(entry)
    IN  /\ ~check_source(conf, "rows", coord[1], entry_index)
        /\ ~check_source(conf, "cols", coord[2], entry_index)
        /\ ~check_source(conf, "blocks", block_index(coord), entry_index)

set_conflict_state(conf, coord, entry, state) ==
    LET entry_index == index_of(entry)
        c1 == set_source(conf, "rows", coord[1], entry_index, state)
        c2 == set_source(c1, "cols", coord[2], entry_index, state)
    IN  set_source(c2, "blocks", block_index(coord), entry_index, state)

\* A board object: the two owned members together.
BoardObj(entries, conf) == [board |-> entries, conflicts |-> conf]

\* Mutant of set_cell: the old entry's conflicts are removed before the
\* legality check, and a rejected write does not put them back.
set_cell_clears_first(B, coord, entry) ==
    LET cell == B.board[coord]
        conf1 == IF cell # blank_sentinel
                 THEN set_conflict_state(B.conflicts, coord, cell, FALSE)
                 ELSE B.conflicts
    IN  IF ~check_legal_move(conf1, coord, entry)
        THEN [ret |-> FALSE, B |-> BoardObj(B.board, conf1)]
        ELSE [ret |-> TRUE,
              B |-> BoardObj([B.board EXCEPT ![coord] = entry],
                             set_conflict_state(conf1, coord, entry, TRUE))]

\* SudokuBoard::set_cell : the returned bool and the object afterwards.
set_cell(B, coord, entry) ==
    IF ~check_legal_move(B.conflicts, coord, entry)
    THEN [ret |-> FALSE, B |-> B]
    ELSE LET cell == B.board[coord]
             conf1 == IF cell # blank_sentinel
                      THEN set_conflict_state(B.conflicts, coord, cell, FALSE)
                      ELSE B.conflicts
         IN  [ret |-> TRUE,
              B |-> BoardObj([B.board EXCEPT ![coord] = entry],
                             set_conflict_state(conf1, coord, entry, TRUE))]

\* Mutant of clear_cell: the cell is blanked but its conflicts stay set.
clear_cell_keeps_conflicts(B, coord) ==
    BoardObj([B.board EXCEPT ![coord] = blank_sentinel], B.conflicts)

\* SudokuBoard::clear_cell
clear_cell(B, coord) ==
    LET cell == B.board[coord]
    IN  IF cell # blank_sentinel
        THEN BoardObj([B.board EXCEPT ![coord] = blank_sentinel],
                      set_conflict_state(B.conflicts, coord, cell, FALSE))
        ELSE B

\* SudokuBoard::clear : every cell blank and the three tables all false.
\* The counts arrays and entry_counts are not written.
clear(B) ==
    BoardObj(EmptyBoard,
             [B.conflicts EXCEPT !.rows.table = EmptySource.table,
                                 !.cols.table = EmptySource.table,
                                 !.blocks.table = EmptySource.table])

\* Mutant of step_row: the scan stops at the end of the row.
step_row_one_row(coord) ==
    IF coord[2] + 1 >= k_dim THEN NullOpt ELSE <<coord[1], coord[2] + 1>>

step_row(coord) ==
    IF coord[2] + 1 >= k_dim
    THEN (IF coord[1] + 1 = k_dim THEN NullOpt ELSE <<coord[1] + 1, 0>>)
    ELSE <<coord[1], coord[2] + 1>>

step_col(coord) ==
    LET temp == step_row(<<coord[2], coord[1]>>)
    IN  IF temp # NullOpt THEN <<temp[2], temp[1]>> ELSE NullOpt

step_block(coord) ==
    LET row == coord[1]
        col == coord[2]
    IN  IF (col + 1) % N # 0 THEN <<row, col + 1>>
        ELSE IF (row + 1) % N # 0 THEN <<row + 1, col + 1 - N>>
        ELSE IF (col + 1) % k_dim = 0
             THEN (IF row = k_dim - 1 THEN NullOpt ELSE <<row + 1, 0>>)
             ELSE <<row + 1 - N, col + 1>>

step(how, coord) ==
    CASE how = "row" -> step_row(coord)
      [] how = "col" -> step_col(coord)
      [] how = "block" -> step_block(coord)

\* details::iterate_optional_until with the "cell is blank" predicate the
\* solve variants pass: the first blank at or after `value` along `how`.
RECURSIVE iterate_optional_until(_, _, _)
iterate_optional_until(board, value, how) ==
    IF value = NullOpt \/ board[value] = blank_sentinel
    THEN value
    ELSE iterate_optional_until(board, step(how, value), how)

\* details::max_bounded over the index range [it, k_dim) of a counts array:
\* current_max starts at the first element, whatever its value.
RECURSIVE max_bounded_from(_, _, _, _)
max_bounded_from(counts, it, cap, current_max) ==
    IF it = k_dim THEN current_max
    ELSE IF ~(counts[it] < cap) THEN max_bounded_from(counts, it + 1, cap, current_max)
    ELSE IF counts[current_max] < counts[it]
         THEN max_bounded_from(counts, it + 1, cap, it)
         ELSE max_bounded_from(counts, it + 1, cap, current_max)

max_bounded(counts, cap) == max_bounded_from(counts, 1, cap, 0)

\* BoardConflicts::promising_index : <<index, count>> or nullopt.
promising_index(conf, source) ==
    LET pos == max_bounded(conf[source].counts, k_dim)
    IN  IF pos # k_dim THEN <<pos, conf[source].counts[pos]>> ELSE NullOpt

\* The guess_next lambda of solve_heuristic.
guess_next(B) ==
    LET best_row == promising_index(B.conflicts, "rows")
        best_col == promising_index(B.conflicts, "cols")
    IN  IF best_row = NullOpt THEN NullOpt
        ELSE IF best_row[2] > best_col[2]
             THEN iterate_optional_until(B.board, <<best_row[1], 0>>, "row")
             ELSE iterate_optional_until(B.board, <<0, best_col[1]>>, "col")

\* The find_next_blank functor of each solve variant. The lambdas are
\* function-local statics capturing the board of their first call; this
\* specification has one board, which is that board.
find_next_blank(how, B, coord) ==
    IF how = "heuristic" THEN guess_next(B)
    ELSE iterate_optional_until(B.board, coord, how)

\* std::sort leaves the order of candidates with equal entry_counts
\* unspecified: the order among ties is a parameter of the solve.
TieOrders == {"ascending", "descending"}

\* The candidate order solve_after sorts m_entry_indices into.
entry_order(conf, tie) ==
    LET less(lhs, rhs) ==
            \/ conf.entry_counts[lhs] < conf.entry_counts[rhs]
            \/ /\ conf.entry_counts[lhs] = conf.entry_counts[rhs]
               /\ IF tie = "ascending" THEN lhs < rhs ELSE lhs > rhs
    IN  SortSeq([i \in 1 .. k_dim |-> i - 1], less)

\* SudokuBoard::solve_after : [solved, call_count, B]. try_candidates is its
\* for loop from position i of the sorted candidates.
RECURSIVE try_candidates(_, _, _, _, _, _, _)
solve_after(B, coord, how, tie) ==
    try_candidates(B, coord, how, tie, entry_order(B.conflicts, tie), 1, 1)

\* The for loop without the clear_cell(coord) of a failed branch.
try_candidates_keeps_cell(B, coord, how, tie, order, i, calls) ==
    IF i > Len(order)
    THEN [solved |-> FALSE, call_count |-> calls, B |-> B]
    ELSE LET set == set_cell(B, coord, reverse_index(order[i]))
         IN  IF ~set.ret
             THEN try_candidates(B, coord, how, tie, order, i + 1, calls)
             ELSE LET next == find_next_blank(how, set.B, coord)
                  IN  IF next = NullOpt
                      THEN [solved |-> TRUE, call_count |-> calls, B |-> set.B]
                      ELSE LET sub == solve_after(set.B, next, how, tie)
                           IN  IF sub.solved
                               THEN [solved |-> TRUE,
                                     call_count |-> calls + sub.call_count,
                                     B |-> sub.B]
                               ELSE try_candidates(sub.B, coord,
                                                   how, tie, order, i + 1,
                                                   calls + sub.call_count)

try_candidates(B, coord, how, tie, order, i, calls) ==
    IF i > Len(order)
    THEN [solved |-> FALSE, call_count |-> calls, B |-> B]
    ELSE LET set == set_cell(B, coord, reverse_index(order[i]))
         IN  IF ~set.ret
             THEN try_candidates(B, coord, how, tie, order, i + 1, calls)
             ELSE LET next == find_next_blank(how, set.B, coord)
                  IN  IF next = NullOpt
                      THEN [solved |-> TRUE, call_count |-> calls, B |-> set.B]
                      ELSE LET sub == solve_after(set.B, next, how, tie)
                           IN  IF sub.solved
                               THEN [solved |-> TRUE,
                                     call_count |-> calls + sub.call_count,
                                     B |-> sub.B]
                               ELSE try_candidates(clear_cell(sub.B, coord), coord,
                                                   how, tie, order, i + 1,
                                                   calls + sub.call_count)

\* solve_scanning_row / _col / _block / solve_heuristic.
solve(B, how, tie) ==
    LET start == find_next_blank(how, B, <<0, 0>>)
    IN  IF start = NullOpt
        THEN [solved |-> TRUE, call_count |-> 0, B |-> B]
        ELSE solve_after(B, start, how, tie)

\* The frames of solve_after the stack is given in the model. A recursion
\* that is fed by a board the solve does not write revisits one cell; it
\* either returns within two frames or goes on until the stack is used up.
StackLimit == 4

\* solve_after called with a find_next_blank whose captured object S is not
\* the object B the solve writes: [solved, call_count, B, overflow].
RECURSIVE try_candidates_static(_, _, _, _, _, _, _, _, _)
solve_after_static(B, S, coord, how, tie, depth) ==
    IF depth > StackLimit
    THEN [solved |-> FALSE, call_count |-> 0, B |-> B, overflow |-> TRUE]
    ELSE try_candidates_static(B, S, coord, how, tie,
                               entry_order(B.conflicts, tie), 1, 1, depth)

try_candidates_static(B, S, coord, how, tie, order, i, calls, depth) ==
    IF i > Len(order)
    THEN [solved |-> FALSE, call_count |-> calls, B |-> B, overflow |-> FALSE]
    ELSE LET set == set_cell(B, coord, reverse_index(order[i]))
         IN  IF ~set.ret
             THEN try_candidates_static(B, S, coord, how, tie, order, i + 1, calls, depth)
             ELSE LET next == find_next_blank(how, S, coord)
                  IN  IF next = NullOpt
                      THEN [solved |-> TRUE, call_count |-> calls, B |-> set.B,
                            overflow |-> FALSE]
                      ELSE LET sub == solve_after_static(set.B, S, next, how, tie,
                                                         depth + 1)
                           IN  IF sub.overflow THEN sub
                               ELSE IF sub.solved
                               THEN [solved |-> TRUE,
                                     call_count |-> calls + sub.call_count,
                                     B |-> sub.B, overflow |-> FALSE]
                               ELSE try_candidates_static(clear_cell(sub.B, coord),
                                                          S, coord, how, tie, order,
                                                          i + 1,
                                                          calls + sub.call_count,
                                                          depth)

\* A solve variant called on B while its static lambda holds the `this` of
\* the object S of the variant's first call.
solve_static(B, S, how, tie) ==
    LET start == find_next_blank(how, S, <<0, 0>>)
    IN  IF start = NullOpt
        THEN [solved |-> TRUE, call_count |-> 0, B |-> B, overflow |-> FALSE]
        ELSE solve_after_static(B, S, start, how, tie, 1)

(***************************************************************************)
(* SudokuBoard: the calls a driver makes                                   *)
(***************************************************************************)

\* The cells a driver writes while it sets a puzzle up. They are the row,
\* column and block neighbours of cell (0, 0), so a set-up can leave that
\* cell without a candidate (a board with no completion).
SetupCoords == {<<0, 1>>, <<0, 2>>, <<1, 1>>, <<2, 0>>}

SolveOps ==
    {"solve_scanning_row", "solve_scanning_col", "solve_scanning_block",
     "solve_heuristic"}

ThisBoard == BoardObj(m_board_entries, m_conflicts)

\* The graph members before any graph is constructed.
NoGraph ==
    /\ m_nodes = 0
    /\ m_edges = <<>>
    /\ m_visited = <<>>
    /\ m_shortest_paths = <<>>
    /\ search = [alg |-> "none", pc |-> "idle", start |-> 0, goal |-> 0]
    /\ unvisited_indices = {}
    /\ result = [path |-> <<>>, weight |-> 0, returned |-> FALSE]

\* No range has been handed to an algorithm.
NoAlgo ==
    /\ range = <<>>
    /\ algo = [op |-> "none"]

\* No matrix has been constructed.
NoMatrix ==
    /\ m_entries = <<>>
    /\ m_rows = 0
    /\ m_cols = 0
    /\ new_dim = <<0, 0>>
    /\ raised = "none"

\* No iterator has been constructed.
NoIter ==
    /\ m_dir = "N"
    /\ m_grid_ref = FALSE
    /\ m_curr_center = <<0, 0>>
    /\ m_curr_pos = <<0, 0>>
    /\ m_sequence = <<>>
    /\ emitted = <<>>

NoProject3 == NoAlgo /\ NoMatrix /\ NoIter

\* No code has been constructed.
NoCode ==
    /\ m_digits = <<>>
    /\ guess = <<>>
    /\ response = <<>>

\* No deck has been constructed.
NoDeck ==
    /\ m_next = <<>>
    /\ m_value = <<>>
    /\ m_before_end = 0
    /\ removed = {}
    /\ deck_op = [name |-> "none"]

NoProject12 == NoCode /\ NoDeck

\* SudokuBoard(Policy) : an empty board, zero-initialised conflicts.
NewBoard ==
    /\ m_board_entries = EmptyBoard
    /\ m_conflicts = EmptyConflicts
    /\ op = "none"
    /\ ret = FALSE
    /\ call_count = 0
    /\ solve_start = NullOpt
    /\ b_board_entries = EmptyBoard
    /\ b_conflicts = EmptyConflicts
    /\ static_this = [name \in SolveOps |-> "none"]
    /\ self = "A"
    /\ fault = "none"

InitSudoku == NewBoard /\ NoGraph /\ NoProject3 /\ NoProject12

SetCell(coord, entry) ==
    /\ op \notin SolveOps
    /\ \E r \in {set_cell(ThisBoard, coord, entry)} :
           /\ m_board_entries' = r.B.board
           /\ m_conflicts' = r.B.conflicts
           /\ ret' = r.ret
    /\ op' = "set_cell"
    /\ UNCHANGED <<call_count, solve_start, twoBoardVars, graphVars, project3Vars,
                   project12Vars>>

ClearCell(coord) ==
    /\ op \notin SolveOps
    /\ \E B \in {clear_cell(ThisBoard, coord)} :
           /\ m_board_entries' = B.board
           /\ m_conflicts' = B.conflicts
    /\ op' = "clear_cell"
    /\ ret' = FALSE
    /\ UNCHANGED <<call_count, solve_start, twoBoardVars, graphVars, project3Vars,
                   project12Vars>>

\* One solve variant run to completion.
Solve(name, how, tie) ==
    /\ \E r \in {solve(ThisBoard, how, tie)} :
           /\ m_board_entries' = r.B.board
           /\ m_conflicts' = r.B.conflicts
           /\ ret' = r.solved
           /\ call_count' = r.call_count
    /\ solve_start' = find_next_blank(how, ThisBoard, <<0, 0>>)
    /\ op' = name
    /\ UNCHANGED <<twoBoardVars, graphVars, project3Vars, project12Vars>>

SolveScanningRow == \E tie \in TieOrders : Solve("solve_scanning_row", "row", tie)

SolveScanningCol == \E tie \in TieOrders : Solve("solve_scanning_col", "col", tie)

SolveScanningBlock ==
    \E tie \in TieOrders : Solve("solve_scanning_block", "block", tie)

SolveHeuristic ==
    \E tie \in TieOrders : Solve("solve_heuristic", "heuristic", tie)

NextSudoku ==
    \/ \E coord \in SetupCoords, entry \in Entries : SetCell(coord, entry)
    \/ \E coord \in SetupCoords : ClearCell(coord)
    \/ SolveScanningRow
    \/ SolveScanningCol
    \/ SolveScanningBlock
    \/ SolveHeuristic

SpecSudoku == InitSudoku /\ [][NextSudoku]_vars

\* The largest total of entry_counts a board may carry when clear is called;
\* it keeps the counters that clear leaves behind from growing without end.
MaxStale == 3

RECURSIVE total_from(_, _)
total_from(counts, it) ==
    IF it = k_dim THEN 0 ELSE counts[it] + total_from(counts, it + 1)

Clear ==
    /\ op \notin SolveOps
    /\ total_from(m_conflicts.entry_counts, 0) <= MaxStale
    /\ \E B \in {clear(ThisBoard)} :
           /\ m_board_entries' = B.board
           /\ m_conflicts' = B.conflicts
    /\ op' = "clear"
    /\ ret' = FALSE
    /\ UNCHANGED <<call_count, solve_start, twoBoardVars, graphVars, project3Vars,
                   project12Vars>>

\* The editing operations of the board, clear included.
NextSudokuClear ==
    \/ \E coord \in SetupCoords, entry \in Entries : SetCell(coord, entry)
    \/ \E coord \in SetupCoords : ClearCell(coord)
    \/ Clear

SpecSudokuClear == InitSudoku /\ [][NextSudokuClear]_vars

\* The cells a driver fills before it calls solve_heuristic: the first
\* column and the cell next to its top, so a set-up can hold a complete
\* column next to rows that are not complete.
HeuristicCoords == {<<0, 0>>, <<1, 0>>, <<2, 0>>, <<3, 0>>, <<0, 1>>}

NextHeuristic ==
    \/ \E coord \in HeuristicCoords, entry \in Entries : SetCell(coord, entry)
    \/ \E coord \in HeuristicCoords : ClearCell(coord)
    \/ SolveHeuristic

SpecHeuristic == InitSudoku /\ [][NextHeuristic]_vars

\* Two boards of one type, A (m_board_entries, m_conflicts) and B.
Objects == {"A", "B"}

ObjectA == BoardObj(m_board_entries, m_conflicts)

ObjectB == BoardObj(b_board_entries, b_conflicts)

Object(o) == IF o = "A" THEN ObjectA ELSE ObjectB

\* The cells the driver of the two boards writes and clears.
TwoBoardCoords == {<<0, 0>>}

\* The solve variants the driver of the two boards calls, with the scan
\* each of them uses.
TwoBoardSolves == {"solve_scanning_row", "solve_heuristic"}

HowOf(name) == IF name = "solve_heuristic" THEN "heuristic" ELSE "row"

NoSolveYet == \A name \in SolveOps : static_this[name] = "none"

\* The members of object o become those of board Bo.
Becomes(o, Bo) ==
    /\ IF o = "A"
       THEN /\ m_board_entries' = Bo.board
            /\ m_conflicts' = Bo.conflicts
            /\ UNCHANGED <<b_board_entries, b_conflicts>>
       ELSE /\ b_board_entries' = Bo.board
            /\ b_conflicts' = Bo.conflicts
            /\ UNCHANGED <<m_board_entries, m_conflicts>>
    /\ self' = o

SetCellOn(o, coord, entry) ==
    /\ fault = "none"
    /\ NoSolveYet
    /\ \E r \in {set_cell(Object(o), coord, entry)} :
           /\ Becomes(o, r.B)
           /\ ret' = r.ret
    /\ op' = "set_cell"
    /\ UNCHANGED <<call_count, solve_start, static_this, fault, graphVars, project3Vars,
                   project12Vars>>

ClearCellOn(o, coord) ==
    /\ fault = "none"
    /\ Becomes(o, clear_cell(Object(o), coord))
    /\ op' = "clear_cell"
    /\ ret' = FALSE
    /\ UNCHANGED <<call_count, solve_start, static_this, fault, graphVars, project3Vars,
                   project12Vars>>

\* A solve variant called on object o. The function-local static lambda is
\* initialised by the first call of the variant, with the `this` of that
\* call, and every later call of the variant uses the same lambda.
SolveOn(o, name, tie) ==
    /\ fault = "none"
    /\ \E captured \in {IF static_this[name] = "none" THEN o ELSE static_this[name]} :
           /\ static_this' = [static_this EXCEPT ![name] = captured]
           /\ solve_start' = find_next_blank(HowOf(name), Object(captured), <<0, 0>>)
           /\ \E r \in {IF captured = o
                         THEN [overflow |-> FALSE] @@ solve(Object(o), HowOf(name), tie)
                         ELSE solve_static(Object(o), Object(captured), HowOf(name), tie)} :
                  /\ Becomes(o, r.B)
                  /\ ret' = r.solved
                  /\ call_count' = r.call_count
                  /\ fault' = IF r.overflow THEN "stack_overflow" ELSE "none"
    /\ op' = name
    /\ UNCHANGED <<graphVars, project3Vars, project12Vars>>

NextTwoBoards ==
    \/ \E o \in Objects, coord \in TwoBoardCoords, entry \in Entries : SetCellOn(o, coord, entry)
    \/ \E o \in Objects, coord \in TwoBoardCoords : ClearCellOn(o, coord)
    \/ \E o \in Objects, name \in TwoBoardSolves, tie \in TieOrders : SolveOn(o, name, tie)

SpecTwoBoards == InitSudoku /\ [][NextTwoBoards]_vars

(***************************************************************************)
(* SudokuBoard: properties                                                 *)
(***************************************************************************)

\* Two distinct cells that share a row, a column or a block.
Peers(c, d) ==
    /\ c # d
    /\ \/ c[1] = d[1]
       \/ c[2] = d[2]
       \/ block_index(c) = block_index(d)

\* The Sudoku rule on a grid of entries: no value twice in a row, column or
\* block.
NoDuplicates(board) ==
    \A c, d \in Coordinate :
        (Peers(c, d) /\ board[c] # blank_sentinel) => board[c] # board[d]

NoBlanks(board) == \A c \in Coordinate : board[c] # blank_sentinel

NonBlankCount(board) == Cardinality({c \in Coordinate : board[c] # blank_sentinel})

\* Every filled grid that obeys the Sudoku rule, built row by row from the
\* permutations of the entries.
RowPerms ==
    {p \in [Idx -> Entries] : \A i, j \in Idx : i # j => p[i] # p[j]}

\* The stacks of n rows in which no row repeats a value of an earlier row
\* in the same column or in the same block.
RECURSIVE RowStacks(_)
RowStacks(n) ==
    IF n = 0 THEN {<<>>}
    ELSE {Append(s, p) : <<s, p>> \in
            {sp \in RowStacks(n - 1) \X RowPerms :
                \A r \in 1 .. (n - 1), c, d \in Idx :
                    (Peers(<<r - 1, c>>, <<n - 1, d>>)) => sp[1][r][c] # sp[2][d]}}

AllSolutions ==
    {[c \in Coordinate |-> s[c[1] + 1][c[2]]] : s \in RowStacks(k_dim)}

\* The board has a legal completion: a solution that keeps its filled cells.
Completable(board) ==
    \E g \in AllSolutions :
        \A c \in Coordinate : board[c] # blank_sentinel => g[c] = board[c]

\* C1: after any sequence of set_cell and clear_cell calls, every cell that
\* holds a value v has the row, column and block flag of v set, and no other
\* cell of its row, column or block holds v.
C1_ConflictConsistency ==
    \A c \in Coordinate :
        LET v == m_board_entries[c]
        IN  v # blank_sentinel =>
                /\ m_conflicts.rows.table[<<c[1], index_of(v)>>]
                /\ m_conflicts.cols.table[<<c[2], index_of(v)>>]
                /\ m_conflicts.blocks.table[<<block_index(c), index_of(v)>>]
                /\ \A d \in Coordinate : Peers(c, d) => m_board_entries[d] # v

\* A set-up with three values placed, reached through clear_cell.
C1_Witness ==
    /\ op = "clear_cell"
    /\ NonBlankCount(m_board_entries) >= 3

\* C2: a solve variant that returns solved = true leaves a board without
\* blanks whose rows, columns and blocks hold pairwise distinct values.
C2_SolveSound ==
    (op \in SolveOps /\ ret) =>
        (NoBlanks(m_board_entries) /\ NoDuplicates(m_board_entries))

\* A solve that had to recurse and reported success.
C2_Witness ==
    /\ op \in SolveOps
    /\ ret
    /\ call_count > 1
    /\ NoBlanks(m_board_entries)

\* C3: a solve variant called on a board that has a legal completion
\* returns solved = true.
C3_SolveComplete ==
    [][(op' \in SolveOps /\ Completable(m_board_entries)) => ret']_vars

\* A solve that backtracked (more calls than cells) and still succeeded.
C3_Witness ==
    /\ op \in SolveOps
    /\ ret
    /\ call_count > k_dim * k_dim

\* The value is held by the cell itself or by a cell of its row, column or
\* block.
ValueInUnits(board, coord, entry) ==
    \E d \in Coordinate : (d = coord \/ Peers(coord, d)) /\ board[d] = entry

\* C4: set_cell with a value that already appears in the row, column or
\* block of the cell returns false and changes neither the cells nor the
\* conflict tables and counters.
C4_ConflictRejected ==
    [][\A coord \in SetupCoords, entry \in Entries :
        (SetCell(coord, entry) /\ ValueInUnits(m_board_entries, coord, entry))
            => (ret' = FALSE /\ UNCHANGED <<m_board_entries, m_conflicts>>)]_vars

\* A rejected set_cell on a board that holds values.
C4_Witness ==
    /\ op = "set_cell"
    /\ ret = FALSE
    /\ NonBlankCount(m_board_entries) >= 2

\* C5: set_cell with the value the cell already holds returns true and
\* changes nothing.
C5_SameValueAccepted ==
    [][\A coord \in SetupCoords, entry \in Entries :
        (SetCell(coord, entry) /\ m_board_entries[coord] = entry)
            => (ret' = TRUE /\ UNCHANGED <<m_board_entries, m_conflicts>>)]_vars

\* The number of value indices flagged for source index i of a source.
TrueCount(src, i) == Cardinality({v \in Idx : src.table[<<i, v>>]})

\* C19: after any sequence of set_cell, clear_cell and clear calls, for each
\* of rows, cols and blocks and each source index i, counts[i] equals the
\* number of value indices v whose flag table[i][v] is true.
C19_CountsMatchTables ==
    \A source \in {"rows", "cols", "blocks"}, i \in Idx :
        m_conflicts[source].counts[i] = TrueCount(m_conflicts[source], i)

\* The number of cells that hold the value with index v.
CellsHolding(board, v) ==
    Cardinality({c \in Coordinate : board[c] = reverse_index(v)})

\* C20: after any sequence of set_cell and clear_cell calls, entry_counts[v]
\* equals the number of cells of the board that hold the value with index v.
C20_EntryCountsMatchBoard ==
    op \in {"none", "set_cell", "clear_cell"} =>
        \A v \in Idx : m_conflicts.entry_counts[v] = CellsHolding(m_board_entries, v)

\* C21: two boards of one type do not share state. When a solve variant
\* was first called on A and is then called on B, the call returns and B's
\* cells, conflicts, result and call count are those of the same solve on
\* a B that is alone.
C21_BoardsIndependent ==
    [][(op' \in TwoBoardSolves /\ self' = "B" /\ static_this[op'] = "A") =>
          /\ fault' = "none"
          /\ \E tie \in TieOrders :
                 \E r \in {solve(ObjectB, HowOf(op'), tie)} :
                     /\ b_board_entries' = r.B.board
                     /\ b_conflicts' = r.B.conflicts
                     /\ ret' = r.solved
                     /\ call_count' = r.call_count]_vars

\* The cells of row r / of column c, and the number of them that are filled.
RowCells(r) == {<<r, c>> : c \in Idx}

ColCells(c) == {<<r, c>> : r \in Idx}

Fill(board, cells) == Cardinality({x \in cells : board[x] # blank_sentinel})

\* The lines (rows or columns) that are not complete, and among them those
\* with the greatest number of filled cells.
Incomplete(board, lines) == {l \in lines : Fill(board, l) < k_dim}

Fullest(board, lines) ==
    {l \in Incomplete(board, lines) :
        \A o \in Incomplete(board, lines) : Fill(board, o) <= Fill(board, l)}

\* The first blank cell of a line: the one with the least column (row) index.
FirstBlank(board, line) ==
    CHOOSE x \in line :
        /\ board[x] = blank_sentinel
        /\ \A y \in line : board[y] = blank_sentinel => (x[1] <= y[1] /\ x[2] <= y[2])

\* The cells the selection rule allows on a board with a blank cell: the
\* first blank of a fullest incomplete row when no incomplete column is
\* fuller, or of a fullest incomplete column when no incomplete row is.
Promising(board) ==
    LET rows == Fullest(board, {RowCells(r) : r \in Idx})
        cols == Fullest(board, {ColCells(c) : c \in Idx})
    IN  {FirstBlank(board, l) : l \in
            {r \in rows : \A c \in cols : Fill(board, c) <= Fill(board, r)}
            \cup {c \in cols : \A r \in rows : Fill(board, r) <= Fill(board, c)}}

\* C24: when solve_heuristic is called on a board with a blank cell, the
\* cell its selector returns is the first blank of the fullest row or
\* column that is not complete, whichever of the two is fuller.
C24_HeuristicPicksFullest ==
    [][(op' = "solve_heuristic" /\ ~NoBlanks(m_board_entries)) =>
          solve_start' \in Promising(m_board_entries)]_vars

\* The solve step wrote object o: o's cells that held a value keep it, and
\* when the solve returned false o's cells, conflict tables and counters are
\* those before the call.
FrameOf(before, after, solved) ==
    /\ \A c \in Coordinate : before.board[c] # blank_sentinel => after.board[c] = before.board[c]
    /\ ~solved => after = before

\* C27: a solve call changes only cells that were blank when it was called,
\* and when it returns solved = false every cell, every conflict-table bit
\* and every counter has its value before the call.
C27_SolveFrame ==
    [][(op' \in SolveOps /\ fault' = "none") =>
          /\ self' = "A" => FrameOf(ObjectA, BoardObj(m_board_entries', m_conflicts'), ret')
          /\ self' = "B" => FrameOf(ObjectB, BoardObj(b_board_entries', b_conflicts'), ret')]_vars

\* A solve that tried candidates in several frames, found no completion and
\* returned false.
C27_Witness ==
    /\ op \in SolveOps
    /\ ~ret
    /\ call_count > 1
    /\ \E c \in Coordinate : m_board_entries[c] # blank_sentinel

(***************************************************************************)
(* Graph<Node, Weight> and GraphWalker<Node, Weight>                       *)
(***************************************************************************)

\* The sizes of the node vector a graph is constructed from.
NodeCounts == 1 .. 3

\* The most edges connect gives a graph.
MaxEdges == 3

\* Maze::k_path_weight, the weight of every edge of a maze graph.
k_path_weight == 1

\* The edge weights connect is called with: none negative.
Weights == {0, k_path_weight}

NodeIndices(n) == 0 .. (n - 1)

\* A graph object: the node count and the adjacency matrix. An optional is
\* the empty sequence (nullopt) or a one-element sequence.
GraphObj(n, edges) == [n |-> n, edges |-> edges]

\* Graph(std::vector<Node>) : n nodes, no edge.
NewGraph(n) ==
    GraphObj(n, [p \in NodeIndices(n) \X NodeIndices(n) |-> NullOpt])

\* Graph::connect_indices
connect_indices(g, from, to, weight) ==
    [g EXCEPT !.edges[<<from, to>>] = <<weight>>]

RECURSIVE neighbors_from(_, _, _)
neighbors_from(g, row, col) ==
    IF col >= g.n THEN <<>>
    ELSE IF g.edges[<<row, col>>] # NullOpt
         THEN <<[index |-> col, weight |-> g.edges[<<row, col>>][1]]>>
              \o neighbors_from(g, row, col + 1)
         ELSE neighbors_from(g, row, col + 1)

\* NodeHandle::neighbors : the present entries of the node's matrix row, in
\* ascending column order.
neighbors(g, index) == neighbors_from(g, index, 0)

\* PathSearchResult{{}, {}} as returned by a search.
EmptyResult == [path |-> <<>>, weight |-> 0, returned |-> TRUE]

\* A search that never returns: path reconstruction that walks a cycle of
\* parent indices and grows the path until memory is exhausted.
Diverged == [path |-> <<>>, weight |-> 0, returned |-> FALSE]

Reverse(seq) == [i \in 1 .. Len(seq) |-> seq[Len(seq) + 1 - i]]

\* GraphWalker::init : both vectors resized to the graph and reset.
init_visited(g) == [i \in NodeIndices(g.n) |-> FALSE]

init_shortest_paths(g) == [i \in NodeIndices(g.n) |-> NullOpt]

ShortestPath(total_weight, parent_index) ==
    <<[total_weight |-> total_weight, parent_index |-> parent_index]>>

\* GraphWalker::find_path_dfs_helper : [path, weight, visited], the path in
\* goal-to-current order. dfs_neighbors is its for loop from the k-th
\* neighbour.
RECURSIVE find_path_dfs_helper(_, _, _, _)
RECURSIVE dfs_neighbors(_, _, _, _, _, _)
\* Mutant of dfs_neighbors: the loop gives up when the first unvisited
\* neighbour leads nowhere.
dfs_neighbors_no_backtrack(g, current, goal, nbrs, k, visited) ==
    IF k > Len(nbrs)
    THEN [path |-> <<>>, weight |-> 0,
          visited |-> [visited EXCEPT ![current] = FALSE]]
    ELSE IF visited[nbrs[k].index]
         THEN dfs_neighbors(g, current, goal, nbrs, k + 1, visited)
         ELSE LET res == find_path_dfs_helper(g, nbrs[k].index, goal, visited)
              IN  IF res.path # <<>>
                  THEN [path |-> Append(res.path, current),
                        weight |-> res.weight + nbrs[k].weight,
                        visited |-> res.visited]
                  ELSE [path |-> <<>>, weight |-> 0,
                        visited |-> [res.visited EXCEPT ![current] = FALSE]]

\* The for loop of find_path_dfs_helper.
dfs_neighbors(g, current, goal, nbrs, k, visited) ==
    IF k > Len(nbrs)
    THEN [path |-> <<>>, weight |-> 0,
          visited |-> [visited EXCEPT ![current] = FALSE]]
    ELSE IF visited[nbrs[k].index]
         THEN dfs_neighbors(g, current, goal, nbrs, k + 1, visited)
         ELSE LET res == find_path_dfs_helper(g, nbrs[k].index, goal, visited)
              IN  IF res.path # <<>>
                  THEN [path |-> Append(res.path, current),
                        weight |-> res.weight + nbrs[k].weight,
                        visited |-> res.visited]
                  ELSE dfs_neighbors(g, current, goal, nbrs, k + 1, res.visited)

find_path_dfs_helper(g, current, goal, visited) ==
    LET marked == [visited EXCEPT ![current] = TRUE]
    IN  IF current = goal
        THEN [path |-> <<goal>>, weight |-> 0, visited |-> marked]
        ELSE dfs_neighbors(g, current, goal, neighbors(g, current), 1, marked)

\* Mutant of find_path_dfs: the path is left in goal-to-start order.
find_path_dfs_no_reverse(g, start, goal) ==
    LET res == find_path_dfs_helper(g, start, goal, init_visited(g))
    IN  [path |-> res.path, weight |-> res.weight, returned |-> TRUE,
         visited |-> res.visited]

\* GraphWalker::find_path_dfs
find_path_dfs(g, start, goal) ==
    LET res == find_path_dfs_helper(g, start, goal, init_visited(g))
    IN  [path |-> Reverse(res.path), weight |-> res.weight, returned |-> TRUE,
         visited |-> res.visited]

\* What m_shortest_paths[i]->parent_index can read, as functions of i: the
\* stored parent where the optional is engaged. Through a disengaged
\* optional the read is undefined and yields whatever the payload bytes
\* hold; the indices of the graph stand for those values.
parent_index_reads(sp) ==
    LET disengaged == {i \in DOMAIN sp : sp[i] = NullOpt}
    IN  {[i \in DOMAIN sp |->
             IF i \in disengaged THEN payload[i] ELSE sp[i][1].parent_index] :
         payload \in [disengaged -> DOMAIN sp]}

\* What m_shortest_paths[i]->total_weight can read: the stored weight, or
\* any weight when the optional is disengaged.
total_weight_reads(sp, i) ==
    IF sp[i] # NullOpt THEN {sp[i][1].total_weight} ELSE Weights

\* The while loop of reconstruct_shortest_path; a path longer than the
\* graph repeats a node and the loop never ends.
RECURSIVE retrace(_, _, _)
retrace(parent, retrace_index, path) ==
    IF retrace_index = parent[retrace_index] THEN path
    ELSE IF Len(path) > Cardinality(DOMAIN parent) THEN <<>>
    ELSE retrace(parent, parent[retrace_index],
                 Append(path, parent[retrace_index]))

\* GraphWalker::reconstruct_shortest_path
reconstruct_shortest_path(sp, parent, end_index) ==
    IF sp[end_index] = NullOpt THEN EmptyResult
    ELSE LET path == retrace(parent, end_index, <<end_index>>)
         IN  IF path = <<>> THEN Diverged
             ELSE [path |-> Reverse(path),
                   weight |-> sp[end_index][1].total_weight,
                   returned |-> TRUE]

\* Mutant of relax: a recorded path is never replaced by a lighter one.
relax_keeps_first(sp, nb_index, new_weight, current_index) ==
    IF sp[nb_index] = NullOpt
    THEN [sp EXCEPT ![nb_index] = ShortestPath(new_weight, current_index)]
    ELSE sp

\* The relaxation both find_path_bfs and find_path_dijkstra apply to one
\* neighbour: the shortest-path map afterwards.
relax(sp, nb_index, new_weight, current_index) ==
    IF sp[nb_index] = NullOpt \/ new_weight < sp[nb_index][1].total_weight
    THEN [sp EXCEPT ![nb_index] = ShortestPath(new_weight, current_index)]
    ELSE sp

\* find_path_bfs binds current_index as a reference to next_nodes.front()
\* and pops the queue before using it, so the reference dangles. Either the
\* storage keeps the popped index for the whole iteration, or a push of the
\* iteration writes it again: the first one stands for that.
DanglingReads == {"stale", "rewritten"}

\* The for loop of find_path_bfs over the neighbours of the popped node,
\* from the k-th: [next_nodes, sp]. current_index is what the reference
\* reads, popped the index that was at the front.
RECURSIVE bfs_neighbors(_, _, _, _, _, _, _, _)
bfs_neighbors(nbrs, k, popped, current_index, next_nodes, visited, sp, dangling) ==
    IF k > Len(nbrs) THEN [next_nodes |-> next_nodes, sp |-> sp]
    ELSE IF visited[nbrs[k].index]
         THEN bfs_neighbors(nbrs, k + 1, popped, current_index, next_nodes,
                            visited, sp, dangling)
         ELSE bfs_neighbors(
                 nbrs, k + 1, popped,
                 IF dangling = "rewritten" /\ current_index = popped
                 THEN nbrs[k].index ELSE current_index,
                 Append(next_nodes, nbrs[k].index), visited,
                 relax(sp, nbrs[k].index,
                       sp[current_index][1].total_weight + nbrs[k].weight,
                       current_index),
                 dangling)

\* The while loop of find_path_bfs: [visited, sp] when the queue is empty.
RECURSIVE bfs_loop(_, _, _, _, _)
bfs_loop(g, next_nodes, visited, sp, dangling) ==
    IF next_nodes = <<>> THEN [visited |-> visited, sp |-> sp]
    ELSE LET current_index == Head(next_nodes)
             marked == [visited EXCEPT ![current_index] = TRUE]
             after == bfs_neighbors(neighbors(g, current_index), 1,
                                    current_index, current_index,
                                    Tail(next_nodes), marked, sp, dangling)
         IN  bfs_loop(g, after.next_nodes, marked, after.sp, dangling)

\* GraphWalker::find_path_bfs up to the call of reconstruct_shortest_path.
find_path_bfs(g, start, dangling) ==
    bfs_loop(g, <<start>>, init_visited(g),
             [init_shortest_paths(g) EXCEPT ![start] = ShortestPath(0, start)],
             dangling)

\* The compare_paths lambda of find_path_dijkstra.
compare_paths(sp, lhs, rhs) ==
    IF sp[lhs] = NullOpt THEN FALSE
    ELSE IF sp[rhs] = NullOpt THEN TRUE
    ELSE sp[lhs][1].total_weight < sp[rhs][1].total_weight

\* The indices std::pop_heap can move to the back of a heap made with
\* std::not_fn(compare_paths): those no other index compares less than.
\* The comparator is not a strict order, so which of several such indices
\* is popped is left open.
heap_top(heap, sp) ==
    {i \in heap : \A j \in heap : ~compare_paths(sp, j, i)}

\* The for loop of find_path_dijkstra over the neighbours of the popped
\* node, from the k-th; current_weight is what
\* m_shortest_paths[current_index]->total_weight reads.
RECURSIVE dijkstra_neighbors(_, _, _, _, _, _)
dijkstra_neighbors(nbrs, k, current_index, current_weight, visited, sp) ==
    IF k > Len(nbrs) THEN sp
    ELSE IF visited[nbrs[k].index]
         THEN dijkstra_neighbors(nbrs, k + 1, current_index, current_weight,
                                 visited, sp)
         ELSE dijkstra_neighbors(
                 nbrs, k + 1, current_index, current_weight, visited,
                 relax(sp, nbrs[k].index, current_weight + nbrs[k].weight,
                       current_index))

(***************************************************************************)
(* The graph driver: a graph is built edge by edge, then one search runs   *)
(* on a new GraphWalker.                                                   *)
(***************************************************************************)

ThisGraph == GraphObj(m_nodes, m_edges)

Nodes == NodeIndices(m_nodes)

EdgeCount == Cardinality({p \in DOMAIN m_edges : m_edges[p] # NullOpt})

Idle == [alg |-> "none", pc |-> "idle", start |-> 0, goal |-> 0]

InitGraph ==
    /\ NewBoard
    /\ NoProject12
    /\ NoProject3
    /\ m_nodes \in NodeCounts
    /\ m_edges = NewGraph(m_nodes).edges
    /\ m_visited = <<>>
    /\ m_shortest_paths = <<>>
    /\ search = Idle
    /\ unvisited_indices = {}
    /\ result = [path |-> <<>>, weight |-> 0, returned |-> FALSE]

\* Graph::connect
Connect(from, to, weight) ==
    /\ search.pc = "idle"
    /\ EdgeCount < MaxEdges
    /\ m_edges' = connect_indices(ThisGraph, from, to, weight).edges
    /\ UNCHANGED <<m_nodes, m_visited, m_shortest_paths, search,
                   unvisited_indices, result, sudokuVars, project12Vars,
                   project3Vars>>

\* walker.find_path_dfs(graph, start, goal)
FindPathDfs(start, goal) ==
    /\ search.pc = "idle"
    /\ \E res \in {find_path_dfs(ThisGraph, start, goal)} :
          /\ m_visited' = res.visited
          /\ result' = [path |-> res.path, weight |-> res.weight,
                        returned |-> res.returned]
    /\ m_shortest_paths' = init_shortest_paths(ThisGraph)
    /\ search' = [alg |-> "dfs", pc |-> "done", start |-> start, goal |-> goal]
    /\ UNCHANGED <<m_nodes, m_edges, unvisited_indices, sudokuVars, project12Vars,
                   project3Vars>>

\* walker.find_path_bfs(graph, start, goal)
FindPathBfs(start, goal, dangling) ==
    /\ search.pc = "idle"
    /\ \E res \in {find_path_bfs(ThisGraph, start, dangling)} :
          /\ m_visited' = res.visited
          /\ m_shortest_paths' = res.sp
          /\ \E parent \in parent_index_reads(res.sp) :
                result' = reconstruct_shortest_path(res.sp, parent, goal)
    /\ search' = [alg |-> "bfs", pc |-> "done", start |-> start, goal |-> goal]
    /\ UNCHANGED <<m_nodes, m_edges, unvisited_indices, sudokuVars, project12Vars,
                   project3Vars>>

\* walker.find_path_dijkstra(graph, start, goal) up to the first make_heap.
FindPathDijkstra(start, goal) ==
    /\ search.pc = "idle"
    /\ m_visited' = init_visited(ThisGraph)
    /\ m_shortest_paths' =
          [init_shortest_paths(ThisGraph) EXCEPT ![start] = ShortestPath(0, start)]
    /\ unvisited_indices' = Nodes
    /\ search' = [alg |-> "dijkstra", pc |-> "loop", start |-> start,
                  goal |-> goal]
    /\ UNCHANGED <<m_nodes, m_edges, result, sudokuVars, project12Vars, project3Vars>>

\* One iteration of the while (true) loop of find_path_dijkstra.
DijkstraPop ==
    /\ search.pc = "loop"
    /\ \E current_index \in heap_top(unvisited_indices, m_shortest_paths) :
          /\ unvisited_indices' = unvisited_indices \ {current_index}
          /\ m_visited' = [m_visited EXCEPT ![current_index] = TRUE]
          /\ IF current_index = search.goal
             THEN /\ \E parent \in parent_index_reads(m_shortest_paths) :
                        result' = reconstruct_shortest_path(
                                      m_shortest_paths, parent, current_index)
                  /\ search' = [search EXCEPT !.pc = "done"]
                  /\ UNCHANGED m_shortest_paths
             ELSE /\ \E current_weight \in
                          total_weight_reads(m_shortest_paths, current_index) :
                        m_shortest_paths' =
                            dijkstra_neighbors(
                                neighbors(ThisGraph, current_index), 1,
                                current_index, current_weight, m_visited',
                                m_shortest_paths)
                  /\ UNCHANGED <<search, result>>
    /\ UNCHANGED <<m_nodes, m_edges, sudokuVars, project12Vars, project3Vars>>

NextGraph ==
    \/ \E from \in Nodes, to \in Nodes, weight \in Weights :
          Connect(from, to, weight)
    \/ \E start \in Nodes, goal \in Nodes : FindPathDfs(start, goal)
    \/ \E start \in Nodes, goal \in Nodes, dangling \in DanglingReads :
          FindPathBfs(start, goal, dangling)
    \/ \E start \in Nodes, goal \in Nodes : FindPathDijkstra(start, goal)
    \/ DijkstraPop

SpecGraph == InitGraph /\ [][NextGraph]_vars

(***************************************************************************)
(* Properties of the graph searches                                        *)
(***************************************************************************)

\* The node sequences of a graph that repeat no node.
SimpleSeqs(n) ==
    {p \in UNION {[1 .. k -> NodeIndices(n)] : k \in 1 .. n} :
        \A i \in 1 .. Len(p), j \in 1 .. Len(p) : i # j => p[i] # p[j]}

\* Every two consecutive entries are joined by a directed edge.
IsPath(g, p) ==
    \A i \in 1 .. (Len(p) - 1) : g.edges[<<p[i], p[i + 1]>>] # NullOpt

RECURSIVE PathWeight(_, _)
PathWeight(g, p) ==
    IF Len(p) <= 1 THEN 0
    ELSE g.edges[<<p[1], p[2]>>][1] + PathWeight(g, Tail(p))

\* The simple paths from start to goal. With no negative weight a lightest
\* path, and a path of fewest edges, is among them.
PathsBetween(g, start, goal) ==
    {p \in SimpleSeqs(g.n) :
        p[1] = start /\ p[Len(p)] = goal /\ IsPath(g, p)}

Reachable(g, start, goal) == PathsBetween(g, start, goal) # {}

Finished(alg) == search.alg = alg /\ search.pc = "done"

GoalPaths == PathsBetween(ThisGraph, search.start, search.goal)

\* C6: when find_path_dijkstra returns a non-empty path of weight W, no
\* path from start to goal weighs less than W.
C6_DijkstraLightest ==
    (Finished("dijkstra") /\ result.returned /\ result.path # <<>>)
        => \A p \in GoalPaths : PathWeight(ThisGraph, p) >= result.weight

\* find_path_dijkstra has returned a path of two edges although a single
\* edge, a heavier one, joins start to goal.
C6_Witness ==
    /\ Finished("dijkstra")
    /\ result.returned
    /\ Len(result.path) = 3
    /\ \E p \in GoalPaths :
          Len(p) = 2 /\ PathWeight(ThisGraph, p) > result.weight

\* C7: the path find_path_bfs returns has the fewest edges among all paths
\* from start to goal.
C7_BfsFewestEdges ==
    (Finished("bfs") /\ result.returned /\ result.path # <<>>)
        => \A p \in GoalPaths : Len(p) >= Len(result.path)

\* C8: find_path_dfs returns, and its path is non-empty exactly when the
\* goal is reachable from start along directed edges.
C8_DfsFindsReachable ==
    Finished("dfs")
        => /\ result.returned
           /\ result.path # <<>>
                <=> Reachable(ThisGraph, search.start, search.goal)

\* find_path_dfs has returned a path that does not go through the first
\* neighbour of start: it came back from that neighbour empty-handed.
C8_Witness ==
    /\ Finished("dfs")
    /\ Len(result.path) >= 2
    /\ LET nbrs == neighbors(ThisGraph, search.start)
       IN  /\ nbrs[1].index # search.start
           /\ nbrs[1].index # result.path[2]

\* C9: when the goal is not reachable from start, each of the three
\* searches returns an empty path with zero weight.
C9_UnreachableIsEmpty ==
    (search.pc = "done" /\ ~Reachable(ThisGraph, search.start, search.goal))
        => result = EmptyResult

\* C10: a non-empty result of find_path_dfs starts at start, ends at goal,
\* follows directed edges, repeats no node, and its weight is the sum of
\* the weights of its edges.
C10_DfsResultIsPath ==
    (Finished("dfs") /\ result.path # <<>>)
        => /\ result.path[1] = search.start
           /\ result.path[Len(result.path)] = search.goal
           /\ result.path \in SimpleSeqs(m_nodes)
           /\ IsPath(ThisGraph, result.path)
           /\ result.weight = PathWeight(ThisGraph, result.path)

\* find_path_dfs has returned a path of two edges, each of weight
\* k_path_weight.
C10_Witness ==
    /\ Finished("dfs")
    /\ Len(result.path) = 3
    /\ result.weight = 2 * k_path_weight

\* The node an iteration of the Dijkstra loop popped.
Popped == unvisited_indices \ unvisited_indices'

\* The popped node has a neighbour that is not visited: the loop over its
\* neighbours reads m_shortest_paths[current_index]->total_weight.
Relaxes(current_index) ==
    \E k \in DOMAIN neighbors(ThisGraph, current_index) :
        ~m_visited'[neighbors(ThisGraph, current_index)[k].index]

\* Every node the retrace from retrace_index reads the parent of has a
\* recorded path; at most fuel nodes are followed.
RECURSIVE FollowedHavePaths(_, _, _)
FollowedHavePaths(sp, retrace_index, fuel) ==
    /\ sp[retrace_index] # NullOpt
    /\ \/ sp[retrace_index][1].parent_index = retrace_index
       \/ fuel = 0
       \/ FollowedHavePaths(sp, sp[retrace_index][1].parent_index, fuel - 1)

\* C28: during find_path_dijkstra every node popped from the heap whose
\* neighbours are relaxed has a recorded shortest path at that moment, and
\* every parent index followed while the path to the goal is reconstructed
\* belongs to a node with a recorded path.
C28_PoppedHasPath ==
    [][(search.pc = "loop" /\ Popped # {}) =>
          \A current_index \in Popped :
              /\ (current_index # search.goal /\ Relaxes(current_index))
                    => m_shortest_paths[current_index] # NullOpt
              /\ (current_index = search.goal /\ m_shortest_paths[current_index] # NullOpt)
                    => FollowedHavePaths(m_shortest_paths, current_index, m_nodes)]_vars

(***************************************************************************)
(* algo_util.h and heap.h: searching and sorting a range                   *)
(***************************************************************************)

\* The longest range handed to an algorithm, and the largest key in it.
MaxLen == 4

MaxKey == 3

Keys == 1 .. MaxKey

\* An element is a key, which the comparator looks at, and the position it
\* had in the input, which the comparator does not look at.
Elem(key, id) == <<key, id>>

\* The comp argument: std::less<> on the keys.
comp(lhs, rhs) == lhs[1] < rhs[1]

\* The input whose i-th element has the i-th key.
Tagged(keys) == [i \in 1 .. Len(keys) |-> Elem(keys[i], i)]

Inputs ==
    {Tagged(keys) : keys \in UNION {[1 .. n -> Keys] : n \in 0 .. MaxLen}}

\* std::iter_swap on positions of the range. Positions count from 1; the
\* end iterator of a range of n elements is position n + 1.
iter_swap(rng, a, b) == [rng EXCEPT ![a] = rng[b], ![b] = rng[a]]

\* details::min_elem of algo_util.h, from the state after its first ++it.
RECURSIVE min_elem_from(_, _, _, _)
min_elem_from(rng, it, end, curr_min) ==
    IF it = end THEN curr_min
    ELSE min_elem_from(rng, it + 1, end,
                       IF comp(rng[it], rng[curr_min]) THEN it ELSE curr_min)

min_elem(rng, it, end) == min_elem_from(rng, it + 1, end, it)

\* eece2560::selection_sort of algo_util.h
RECURSIVE selection_sort(_, _, _)
selection_sort(rng, it, end) ==
    IF it = end THEN rng
    ELSE selection_sort(iter_swap(rng, it, min_elem(rng, it, end)), it + 1, end)

\* The while loop of details::partition_unstable: [rng, boundary].
RECURSIVE partition_loop(_, _, _, _, _)
partition_loop(rng, it, end, pivot, boundary) ==
    IF it = end THEN [rng |-> rng, boundary |-> boundary]
    ELSE IF comp(rng[it], rng[pivot])
         THEN partition_loop(iter_swap(rng, boundary + 1, it), it + 1, end,
                             pivot, boundary + 1)
         ELSE partition_loop(rng, it + 1, end, pivot, boundary)

\* Mutant of partition_unstable: the pivot is not swapped to the boundary.
partition_unstable_pivot_stays(rng, it, end) ==
    IF it = end THEN [rng |-> rng, boundary |-> it]
    ELSE LET done == partition_loop(rng, it, end, it, it)
         IN  [rng |-> done.rng, boundary |-> done.boundary]

\* details::partition_unstable : the range afterwards and the returned
\* iterator.
partition_unstable(rng, it, end) ==
    IF it = end THEN [rng |-> rng, boundary |-> it]
    ELSE LET done == partition_loop(rng, it, end, it, it)
         IN  [rng |-> iter_swap(done.rng, it, done.boundary),
              boundary |-> done.boundary]

\* eece2560::quicksort_unstable
RECURSIVE quicksort_unstable(_, _, _)
quicksort_unstable(rng, it, end) ==
    IF it = end THEN rng
    ELSE LET part == partition_unstable(rng, it, end)
         IN  quicksort_unstable(quicksort_unstable(part.rng, it, part.boundary),
                                part.boundary + 1, end)

\* What *start reads in binary_search when start is the end iterator of
\* the container: the read is undefined; it faults, or yields whatever
\* lies behind the last element.
PastEndReads ==
    {[fault |-> TRUE, value |-> Elem(0, 0)]}
        \cup {[fault |-> FALSE, value |-> Elem(k, 0)] : k \in Keys}

\* eece2560::binary_search : the optional position it returns, or a fault,
\* and the positions of the range it dereferenced.
RECURSIVE binary_search(_, _, _, _, _)
binary_search(rng, start, end, needle, past_end) ==
    IF start = end
    THEN IF start > Len(rng) /\ past_end.fault
         THEN [status |-> "fault", pos |-> NullOpt, reads |-> {start}]
         ELSE LET at_start == IF start > Len(rng) THEN past_end.value
                              ELSE rng[start]
              IN  IF comp(at_start, needle) \/ comp(needle, at_start)
                  THEN [status |-> "returned", pos |-> NullOpt, reads |-> {start}]
                  ELSE [status |-> "returned", pos |-> <<start>>, reads |-> {start}]
    ELSE LET mid == start + ((end - start) \div 2)
             rest == IF comp(rng[mid], needle)
                     THEN binary_search(rng, mid + 1, end, needle, past_end)
                     ELSE binary_search(rng, start, mid, needle, past_end)
         IN  [rest EXCEPT !.reads = @ \cup {mid}]

\* details::heap_child_left : positions from distances, as the code does.
heap_child_left(start, end, pos) ==
    LET next_index == 2 * ((pos - start) + 1) - 1
    IN  IF next_index <= end - start THEN start + next_index ELSE end

\* Mutant of heap_child_right: no node has a right child.
heap_child_right_missing(start, end, pos) == end

\* details::heap_child_right
heap_child_right(start, end, pos) ==
    LET sibling == heap_child_left(start, end, pos)
    IN  IF sibling = end THEN sibling ELSE sibling + 1

\* details::heapify_branch
RECURSIVE heapify_branch(_, _, _, _)
heapify_branch(rng, heap_start, heap_end, current) ==
    LET left == heap_child_left(heap_start, heap_end, current)
        right == heap_child_right(heap_start, heap_end, current)
        larger == IF left < heap_end /\ comp(rng[current], rng[left])
                  THEN left ELSE current
        largest == IF right < heap_end /\ comp(rng[larger], rng[right])
                   THEN right ELSE larger
    IN  IF largest # current
        THEN heapify_branch(iter_swap(rng, current, largest), heap_start,
                            heap_end, largest)
        ELSE rng

\* The while loop of heapify, index counting down to 0.
RECURSIVE heapify_from(_, _, _, _)
heapify_from(rng, start, end, index) ==
    IF index < 0 THEN rng
    ELSE heapify_from(heapify_branch(rng, start, end, start + index), start,
                      end, index - 1)

\* heapify
heapify(rng, start, end) ==
    heapify_from(rng, start, end, ((end - start) \div 2) - 1)

\* The while loop of heap_sort_unstable.
RECURSIVE heap_sort_loop(_, _, _)
heap_sort_loop(rng, start, end) ==
    IF start = end THEN rng
    ELSE heap_sort_loop(
             heapify_branch(iter_swap(rng, start, end - 1), start, end - 1, start),
             start, end - 1)

\* heap_sort_unstable
heap_sort_unstable(rng, start, end) ==
    heap_sort_loop(heapify(rng, start, end), start, end)

(***************************************************************************)
(* The algorithm driver: one range, sorted or made a heap once, and        *)
(* searched while it is sorted.                                            *)
(***************************************************************************)

\* The range is in non-decreasing order under comp.
IsSorted(rng) ==
    \A i \in 1 .. (Len(rng) - 1) : ~comp(rng[i + 1], rng[i])

NotSearched == [status |-> "none", pos |-> NullOpt, reads |-> {}]

Called(name, input, needle, found) ==
    [op |-> name, input |-> input, needle |-> needle, found |-> found]

InitAlgo ==
    /\ NewBoard
    /\ NoProject12
    /\ NoGraph
    /\ NoMatrix
    /\ NoIter
    /\ range \in Inputs
    /\ algo = Called("none", range, Elem(0, 0), NotSearched)

\* selection_sort(std::begin(range), std::end(range))
SelectionSort ==
    /\ algo.op = "none"
    /\ range' = selection_sort(range, 1, Len(range) + 1)
    /\ algo' = [algo EXCEPT !.op = "selection_sort"]
    /\ UNCHANGED <<sudokuVars, project12Vars, graphVars, matrixVars, iterVars>>

\* quicksort_unstable(std::begin(range), std::end(range))
QuicksortUnstable ==
    /\ algo.op = "none"
    /\ range' = quicksort_unstable(range, 1, Len(range) + 1)
    /\ algo' = [algo EXCEPT !.op = "quicksort_unstable"]
    /\ UNCHANGED <<sudokuVars, project12Vars, graphVars, matrixVars, iterVars>>

\* heapify(std::begin(range), std::end(range))
Heapify ==
    /\ algo.op = "none"
    /\ range' = heapify(range, 1, Len(range) + 1)
    /\ algo' = [algo EXCEPT !.op = "heapify"]
    /\ UNCHANGED <<sudokuVars, project12Vars, graphVars, matrixVars, iterVars>>

\* heap_sort_unstable(std::begin(range), std::end(range))
HeapSortUnstable ==
    /\ algo.op = "none"
    /\ range' = heap_sort_unstable(range, 1, Len(range) + 1)
    /\ algo' = [algo EXCEPT !.op = "heap_sort_unstable"]
    /\ UNCHANGED <<sudokuVars, project12Vars, graphVars, matrixVars, iterVars>>

\* binary_search(std::begin(range), std::end(range), needle), as
\* Dictionary::contains calls it on its sorted words.
BinarySearch(needle, past_end) ==
    /\ IsSorted(range)
    /\ algo' = [algo EXCEPT
                  !.op = "binary_search",
                  !.needle = needle,
                  !.found = binary_search(range, 1, Len(range) + 1, needle,
                                          past_end)]
    /\ UNCHANGED <<range, sudokuVars, project12Vars, graphVars, matrixVars, iterVars>>

NextAlgo ==
    \/ SelectionSort
    \/ QuicksortUnstable
    \/ Heapify
    \/ HeapSortUnstable
    \/ \E key \in Keys, past_end \in PastEndReads :
          BinarySearch(Elem(key, 0), past_end)

SpecAlgo == InitAlgo /\ [][NextAlgo]_vars

(***************************************************************************)
(* sorting_util.h: selection_sort and its min_elem, statement by statement *)
(***************************************************************************)

\* The while loop of min_elem changes nothing but curr_min and never
\* advances it: with it != end it is a loop without side effects that does
\* not end, which is undefined. A build either executes the loop as written
\* or is compiled on the assumption that the loop ends.
LoopBuilds == {"spins", "progress_assumed"}

\* The frame of selection_sort(it, end) and of the min_elem it calls: it is
\* the iterator of selection_sort, min_it and curr_min those of min_elem.
SortFrame(build, pc, it, min_it, curr_min) ==
    [op |-> "selection_sort", build |-> build, pc |-> pc, it |-> it, min_it |-> min_it, curr_min |-> curr_min]

InitSortingUtil ==
    /\ NewBoard
    /\ NoProject12
    /\ NoGraph
    /\ NoMatrix
    /\ NoIter
    /\ range \in Inputs
    /\ \E build \in LoopBuilds : algo = SortFrame(build, "idle", 0, 0, 0)

\* selection_sort(std::begin(range), std::end(range)) is called.
SortingUtilCall ==
    /\ algo.pc = "idle"
    /\ algo' = [algo EXCEPT !.pc = "while", !.it = 1]
    /\ UNCHANGED <<range, sudokuVars, project12Vars, graphVars, matrixVars, iterVars>>

\* The test of the while loop of selection_sort; when it holds, min_elem
\* is entered and runs up to the first test of its own loop.
SortingUtilWhile ==
    /\ algo.pc = "while"
    /\ algo' = IF algo.it = Len(range) + 1
               THEN [algo EXCEPT !.pc = "done"]
               ELSE [algo EXCEPT !.pc = "min_elem", !.curr_min = algo.it, !.min_it = algo.it + 1]
    /\ UNCHANGED <<range, sudokuVars, project12Vars, graphVars, matrixVars, iterVars>>

\* The test of the while loop of min_elem fails: min_elem returns curr_min,
\* selection_sort swaps and advances.
MinElemReturn ==
    /\ algo.pc = "min_elem"
    /\ algo.min_it = Len(range) + 1
    /\ range' = iter_swap(range, algo.it, algo.curr_min)
    /\ algo' = [algo EXCEPT !.pc = "while", !.it = algo.it + 1]
    /\ UNCHANGED <<sudokuVars, project12Vars, graphVars, matrixVars, iterVars>>

\* The test of the while loop of min_elem holds and the body runs; it is
\* not advanced.
MinElemBody ==
    /\ algo.pc = "min_elem"
    /\ algo.min_it # Len(range) + 1
    /\ algo.build = "spins"
    /\ algo' = [algo EXCEPT !.curr_min = IF comp(range[algo.min_it], range[algo.curr_min])
                                         THEN algo.min_it ELSE algo.curr_min]
    /\ UNCHANGED <<range, sudokuVars, project12Vars, graphVars, matrixVars, iterVars>>

\* The same loop in a build that assumes it ends: the loop is left with
\* curr_min as it was or as one run of the body sets it.
MinElemAssumedToEnd ==
    /\ algo.pc = "min_elem"
    /\ algo.min_it # Len(range) + 1
    /\ algo.build = "progress_assumed"
    /\ \E curr_min \in {algo.curr_min, algo.min_it} :
           algo' = [algo EXCEPT !.curr_min = curr_min, !.min_it = Len(range) + 1]
    /\ UNCHANGED <<range, sudokuVars, project12Vars, graphVars, matrixVars, iterVars>>

NextSortingUtil ==
    \/ SortingUtilCall
    \/ SortingUtilWhile
    \/ MinElemReturn
    \/ MinElemBody
    \/ MinElemAssumedToEnd

\* The program is one thread: whenever it has a next statement it
\* executes it.
SpecSortingUtil ==
    InitSortingUtil /\ [][NextSortingUtil]_vars /\ WF_vars(NextSortingUtil)

\* C30: selection_sort of sorting_util.h terminates on every finite range:
\* each call of min_elem visits the elements of [it, end) and returns.
C30_SelectionSortTerminates == <>(algo.pc = "done")

(***************************************************************************)
(* Properties of the searching and sorting algorithms                      *)
(***************************************************************************)

\* The needle is present: some element of the range is equal to it under
\* the ordering.
Present(rng, needle) ==
    \E i \in 1 .. Len(rng) : ~comp(rng[i], needle) /\ ~comp(needle, rng[i])

\* C11: on a sorted sequence binary_search returns a position exactly when
\* the needle is present, and the position refers to an element of the
\* sequence that is equal to the needle.
C11_BinarySearchFinds ==
    algo.op = "binary_search"
        => /\ algo.found.pos # NullOpt <=> Present(range, algo.needle)
           /\ algo.found.pos # NullOpt
                => /\ algo.found.pos[1] \in 1 .. Len(range)
                   /\ range[algo.found.pos[1]][1] = algo.needle[1]

\* Elements with equal keys are in the order of their input positions.
Stable(rng) ==
    \A i \in 1 .. Len(rng), j \in 1 .. Len(rng) :
        (i < j /\ rng[i][1] = rng[j][1]) => rng[i][2] < rng[j][2]

\* C12: selection_sort is stable: elements that compare equal keep their
\* relative order.
C12_SelectionSortStable ==
    algo.op = "selection_sort" => Stable(range)

\* C13: after heapify, no parent compares less than a child of it that
\* lies inside the range.
C13_HeapProperty ==
    algo.op = "heapify"
        => \A i \in 0 .. (Len(range) - 1) :
              \A child \in {2 * i + 1, 2 * i + 2} :
                 child < Len(range) => ~comp(range[i + 1], range[child + 1])

\* heapify has moved elements of a range of four or more, whose last
\* parent has one child only.
C13_Witness ==
    /\ algo.op = "heapify"
    /\ Len(range) >= 4
    /\ Len(range) % 2 = 0
    /\ range # algo.input

IsPermutation(rng, input) ==
    /\ Len(rng) = Len(input)
    /\ {rng[i] : i \in 1 .. Len(rng)} = {input[i] : i \in 1 .. Len(input)}

\* C14: heap_sort_unstable and quicksort_unstable return, and leave the
\* range a non-decreasing permutation of the input.
C14_UnstableSortsSort ==
    algo.op \in {"heap_sort_unstable", "quicksort_unstable"}
        => IsSorted(range) /\ IsPermutation(range, algo.input)

\* heap_sort_unstable has sorted a range that held equal keys and began
\* with its largest key.
C14_Witness ==
    /\ algo.op = "heap_sort_unstable"
    /\ Len(range) >= 3
    /\ range # algo.input
    /\ \E i \in 2 .. Len(range) : comp(algo.input[i], algo.input[1])
    /\ \E i \in 2 .. Len(range) : range[i][1] = range[i - 1][1]

\* C29: binary_search(start, end, needle) only reads elements at positions
\* inside [start, end) of the sequence it was first called on, for every
\* sorted sequence and every needle.
C29_ReadsInsideRange ==
    algo.op = "binary_search" => algo.found.reads \subseteq 1 .. Len(range)

(***************************************************************************)
(* matrix.h: Matrix<T>                                                     *)
(***************************************************************************)

\* The most elements a matrix is constructed from; reshape is asked for
\* row and column counts up to it. Products stay far below the width of
\* size_type.
MaxEntries == 6

\* The row and column counts reshape is called with.
Sizes == 0 .. MaxEntries

\* Matrix(Storage entries) : a 1 by N matrix. The i-th element is i - 1,
\* so that every element tells its position.
NewMatrix(n) ==
    [m_entries |-> [i \in 1 .. n |-> i - 1], m_rows |-> 1, m_cols |-> n]

\* Mutant of reshape: the new dimensions are taken without the test.
reshape_unchecked(rows_now, cols_now, dim) ==
    [m_rows |-> dim[1], m_cols |-> dim[2], raised |-> "none"]

\* Matrix::reshape : the dimensions afterwards and the exception thrown.
reshape(rows_now, cols_now, dim) ==
    IF dim[1] * dim[2] = rows_now * cols_now
    THEN [m_rows |-> dim[1], m_cols |-> dim[2], raised |-> "none"]
    ELSE [m_rows |-> rows_now, m_cols |-> cols_now,
          raised |-> "MatrixResizeError"]

\* The range check of Matrix::operator[](Index) const.
InMatrix(rows, cols, index) == index[1] < rows /\ index[2] < cols

\* Matrix::operator[](Index) const, where it does not throw.
EntryAt(entries, cols, index) == entries[index[1] * cols + index[2] + 1]

InitMatrix ==
    /\ NewBoard
    /\ NoProject12
    /\ NoGraph
    /\ NoAlgo
    /\ NoIter
    /\ \E n \in 0 .. MaxEntries :
          /\ m_entries = NewMatrix(n).m_entries
          /\ m_rows = NewMatrix(n).m_rows
          /\ m_cols = NewMatrix(n).m_cols
    /\ new_dim = <<0, 0>>
    /\ raised = "none"

\* matrix.reshape({rows, cols})
Reshape(rows, cols) ==
    /\ \E res \in {reshape(m_rows, m_cols, <<rows, cols>>)} :
          /\ m_rows' = res.m_rows
          /\ m_cols' = res.m_cols
          /\ raised' = res.raised
    /\ new_dim' = <<rows, cols>>
    /\ UNCHANGED <<m_entries, sudokuVars, project12Vars, graphVars, algoVars, iterVars>>

NextMatrix ==
    \E rows \in Sizes, cols \in Sizes : Reshape(rows, cols)

SpecMatrix == InitMatrix /\ [][NextMatrix]_vars

\* C18: reshape(rows, cols) succeeds and sets the dimensions to
\* (rows, cols) exactly when rows * cols is the element count; otherwise
\* it raises MatrixResizeError and leaves dimensions and elements as they
\* were.
C18_ReshapeIffCountMatches ==
    [][\A rows \in Sizes, cols \in Sizes :
          Reshape(rows, cols)
              => IF rows * cols = Len(m_entries)
                 THEN /\ raised' = "none"
                      /\ m_rows' = rows
                      /\ m_cols' = cols
                      /\ m_entries' = m_entries
                 ELSE /\ raised' = "MatrixResizeError"
                      /\ UNCHANGED <<m_rows, m_cols, m_entries>>]_vars

\* A matrix that was reshaped to more than one row has refused a shape.
C18_Witness ==
    /\ raised = "MatrixResizeError"
    /\ m_rows > 1
    /\ m_cols > 1
    /\ new_dim # <<m_rows, m_cols>>

(***************************************************************************)
(* ordinal_wrapping_sequence.h: OrdinalWrappingSequenceIter<T>             *)
(***************************************************************************)

\* The largest row count and column count of a word search grid.
MaxDim == 3

\* The enumerators of m_dir, in declaration order.
Directions == <<"N", "NE", "E", "SE", "S", "SW", "W", "NW">>

\* OrdinalWrappingSequenceIter::compute_offset
compute_offset(dir) ==
    CASE dir = "N" -> <<-1, 0>>
      [] dir = "NE" -> <<-1, 1>>
      [] dir = "E" -> <<0, 1>>
      [] dir = "SE" -> <<1, 1>>
      [] dir = "S" -> <<1, 0>>
      [] dir = "SW" -> <<1, -1>>
      [] dir = "W" -> <<0, -1>>
      [] dir = "NW" -> <<-1, -1>>

\* details::positive_mod
positive_mod(value, base) == (value + base) % base

\* OrdinalWrappingSequenceIter::advance : the new m_curr_pos. The first
\* coordinate is reduced by the column count, the second by the row count.
advance(pos, dir, rows, cols) ==
    <<positive_mod(pos[1] + compute_offset(dir)[1], cols),
      positive_mod(pos[2] + compute_offset(dir)[2], rows)>>

\* An iterator object.
IterObj(dir, grid_ref, center, pos, sequence, exception) ==
    [m_dir |-> dir, m_grid_ref |-> grid_ref, m_curr_center |-> center,
     m_curr_pos |-> pos, m_sequence |-> sequence, raised |-> exception]

\* OrdinalWrappingSequenceIter::advance_center : center, position and
\* grid pointer afterwards.
advance_center(center, rows, cols) ==
    LET first == IF center[1] + 1 = cols THEN 0 ELSE center[1] + 1
        second == IF center[1] + 1 = cols THEN center[2] + 1 ELSE center[2]
    IN  [m_curr_center |-> <<first, second>>, m_curr_pos |-> <<first, second>>,
         m_grid_ref |-> second # rows]

\* OrdinalWrappingSequenceIter::change_dir on a live iterator.
change_dir(it, rows, cols) ==
    IF it.m_dir = "NW"
    THEN LET moved == advance_center(it.m_curr_center, rows, cols)
         IN  [it EXCEPT !.m_dir = "N",
                        !.m_curr_center = moved.m_curr_center,
                        !.m_curr_pos = moved.m_curr_pos,
                        !.m_grid_ref = moved.m_grid_ref]
    ELSE [it EXCEPT !.m_dir =
             Directions[1 + CHOOSE i \in 1 .. 7 : Directions[i] = it.m_dir]]

\* m_sequence.push_back((*m_grid_ref)[m_curr_pos]) : operator[] throws
\* MatrixIndexError for a position outside the matrix.
push_back_at_pos(it, entries, rows, cols) ==
    IF InMatrix(rows, cols, it.m_curr_pos)
    THEN [it EXCEPT !.m_sequence =
             Append(it.m_sequence, EntryAt(entries, cols, it.m_curr_pos))]
    ELSE [it EXCEPT !.raised = "MatrixIndexError"]

\* OrdinalWrappingSequenceIter(const Matrix<T>&)
NewIter(entries, rows, cols) ==
    push_back_at_pos(IterObj("N", TRUE, <<0, 0>>, <<0, 0>>, <<>>, "none"),
                     entries, rows, cols)

\* OrdinalWrappingSequenceIter::operator++()
increment(it, entries, rows, cols) ==
    LET stepped == [it EXCEPT !.m_curr_pos =
                       advance(it.m_curr_pos, it.m_dir, rows, cols)]
    IN  IF stepped.m_curr_pos # stepped.m_curr_center
        THEN push_back_at_pos(stepped, entries, rows, cols)
        ELSE LET restarted == push_back_at_pos(
                                  [stepped EXCEPT !.m_sequence = <<>>],
                                  entries, rows, cols)
                 turned == change_dir(restarted, rows, cols)
             IN  IF restarted.raised # "none" THEN restarted
                 ELSE IF ~turned.m_grid_ref THEN turned
                 ELSE push_back_at_pos(
                          [turned EXCEPT !.m_curr_pos =
                              advance(turned.m_curr_pos, turned.m_dir, rows, cols)],
                          entries, rows, cols)

(***************************************************************************)
(* The word search driver: a grid of R rows and C columns is read, and an  *)
(* iterator over it is incremented until it equals the end sentinel.       *)
(***************************************************************************)

ThisIter ==
    IterObj(m_dir, m_grid_ref, m_curr_center, m_curr_pos, m_sequence, raised)

\* The iterator may be dereferenced and incremented: it is not the end
\* sentinel and no call on it has thrown.
Dereferenceable == m_grid_ref /\ raised = "none"

\* What a loop body sees when it dereferences the iterator.
Emission(it) == <<it.m_curr_center, it.m_dir, Len(it.m_sequence)>>

\* WordSearchGrid::read_file and WordSearchGrid::begin : a matrix of
\* rows * cols letters reshaped to rows by cols, and an iterator over it.
InitWords ==
    /\ NewBoard
    /\ NoProject12
    /\ NoGraph
    /\ NoAlgo
    /\ \E rows \in 1 .. MaxDim, cols \in 1 .. MaxDim :
          /\ m_entries = NewMatrix(rows * cols).m_entries
          /\ m_rows = reshape(1, rows * cols, <<rows, cols>>).m_rows
          /\ m_cols = reshape(1, rows * cols, <<rows, cols>>).m_cols
          /\ new_dim = <<rows, cols>>
    /\ \E it \in {NewIter(m_entries, m_rows, m_cols)} :
          /\ m_dir = it.m_dir
          /\ m_grid_ref = it.m_grid_ref
          /\ m_curr_center = it.m_curr_center
          /\ m_curr_pos = it.m_curr_pos
          /\ m_sequence = it.m_sequence
          /\ raised = it.raised
          /\ emitted = <<Emission(it)>>

\* ++it in a loop that runs while it != end
Increment ==
    /\ Dereferenceable
    /\ \E it \in {increment(ThisIter, m_entries, m_rows, m_cols)} :
          /\ m_dir' = it.m_dir
          /\ m_grid_ref' = it.m_grid_ref
          /\ m_curr_center' = it.m_curr_center
          /\ m_curr_pos' = it.m_curr_pos
          /\ m_sequence' = it.m_sequence
          /\ raised' = it.raised
          /\ emitted' = IF it.m_grid_ref /\ it.raised = "none"
                        THEN Append(emitted, Emission(it))
                        ELSE emitted
    /\ UNCHANGED <<m_entries, m_rows, m_cols, new_dim, sudokuVars, project12Vars, graphVars,
                   algoVars>>

NextWords == Increment

SpecWords == InitWords /\ [][NextWords]_vars

(***************************************************************************)
(* Properties of the ordinal wrapping sequence iterator                    *)
(***************************************************************************)

Max(a, b) == IF a >= b THEN a ELSE b

\* The iterator has become equal to the end sentinel.
AtEnd == ~m_grid_ref /\ raised = "none" /\ emitted # <<>>

\* C15: iterating from begin to the end sentinel emits exactly
\* R * C * 8 * max(R, C) sequences: one for every center, direction and
\* length from 1 to max(R, C), none twice.
C15_EmitsEveryTriple ==
    AtEnd
        => /\ Len(emitted) = m_rows * m_cols * 8 * Max(m_rows, m_cols)
           /\ {emitted[i] : i \in 1 .. Len(emitted)}
                 = {<<<<r, c>>, Directions[d], len>> :
                       r \in 0 .. (m_rows - 1), c \in 0 .. (m_cols - 1),
                       d \in 1 .. 8, len \in 1 .. Max(m_rows, m_cols)}

\* The position k steps from the index `from` in direction dir, the row
\* taken modulo the row count and the column modulo the column count.
Wrapped(from, dir, k) ==
    <<(from[1] + k * (compute_offset(dir)[1] + m_rows)) % m_rows,
      (from[2] + k * (compute_offset(dir)[2] + m_cols)) % m_cols>>

\* C16: at every dereferenceable state the sequence buffer holds the grid
\* elements at center, center + offset, ..., current position, and so its
\* first element is the element at the current center.
C16_BufferFollowsCenter ==
    Dereferenceable
        => /\ m_sequence # <<>>
           /\ \A k \in 1 .. Len(m_sequence) :
                 m_sequence[k] =
                    EntryAt(m_entries, m_cols, Wrapped(m_curr_center, m_dir, k - 1))
           /\ m_curr_pos = Wrapped(m_curr_center, m_dir, Len(m_sequence) - 1)

\* C17: on every grid, square or not, a step from (r, c) with offset
\* (dr, dc) goes to ((r + dr) mod R, (c + dc) mod C), and every position
\* the iterator visits is a coordinate of the grid.
C17_StepsWrapInsideGrid ==
    (m_grid_ref /\ emitted # <<>>)
        => /\ InMatrix(m_rows, m_cols, m_curr_pos)
           /\ advance(m_curr_pos, m_dir, m_rows, m_cols)
                 = Wrapped(m_curr_pos, m_dir, 1)

\* The place of a center in row-major order, and of a direction in the
\* cyclic order N, NE, E, SE, S, SW, W, NW.
RowMajorRank(center) == center[1] * m_cols + center[2]

DirectionRank(dir) == CHOOSE d \in 1 .. 8 : Directions[d] = dir

\* C25: the centers are used in row-major order (0,0), (0,1), ..., and for
\* each center the sequences of direction N come first, then NE, E, SE, S,
\* SW, W and NW, before the next center is used.
C25_CentersRowMajor ==
    /\ emitted # <<>> => (emitted[1][1] = <<0, 0>> /\ emitted[1][2] = "N")
    /\ \A i \in 1 .. (Len(emitted) - 1) :
          \/ /\ emitted[i + 1][1] = emitted[i][1]
             /\ DirectionRank(emitted[i + 1][2]) - DirectionRank(emitted[i][2]) \in {0, 1}
          \/ /\ RowMajorRank(emitted[i + 1][1]) = RowMajorRank(emitted[i][1]) + 1
             /\ emitted[i][2] = "NW"
             /\ emitted[i + 1][2] = "N"

(***************************************************************************)
(* Deck over LinkedList<Card> (8-schcre-2/deck.h, linked_list.h/.tpp)      *)
(***************************************************************************)

\* The cards Deck() places; the source places all 52.
DeckSize == 2

\* The place_bottom calls a driver makes on one deck.
MaxPlaced == 3

Cards == 1 .. DeckSize

\* A BasicUnique<BaseNode> that owns nothing.
nullptr == 0 - 1

\* The address of LinkedList::m_head.
before_begin == 0

\* A list with its owner's iterator: the next pointer of m_head and of each
\* node allocated so far, the values of the nodes, and the destroyed nodes.
DeckObj(next, value, it, gone) ==
    [next |-> next, value |-> value, before_end |-> it, removed |-> gone]

\* LinkedList() with Deck::m_before_end{m_card_list.before_begin()}.
EmptyDeck == DeckObj((before_begin :> nullptr), <<>>, before_begin, {})

\* LinkedList::insert_after : the list afterwards and the returned iterator.
insert_after(D, position, value) ==
    LET new_node == Len(D.value) + 1
        linked == (new_node :> D.next[position]) @@ D.next
    IN  [D |-> DeckObj([linked EXCEPT ![position] = new_node],
                       Append(D.value, value), D.before_end, D.removed),
         it |-> new_node]

\* LinkedList::remove_after : the node after position is unlinked and
\* destroyed; its own next pointer was emptied by the first swap.
remove_after(D, position) ==
    LET next_node == D.next[position]
    IN  DeckObj([D.next EXCEPT ![position] = D.next[next_node],
                               ![next_node] = nullptr],
                D.value, D.before_end, D.removed \cup {next_node})

empty(D) == D.next[before_begin] = nullptr

front(D) == D.value[D.next[before_begin]]

\* Deck::deal : the optional card and the deck afterwards.
deal(D) ==
    IF empty(D) THEN [card |-> NullOpt, D |-> D]
    ELSE [card |-> <<front(D)>>, D |-> remove_after(D, before_begin)]

\* What insert_after can do when its position is a destroyed node: the freed
\* storage still holds the node ("stale"), the allocator hands the same
\* storage to the new node, which then follows itself ("reused"), or the
\* run is stopped ("abort").
DanglingWrites == {"stale", "reused", "abort"}

\* Deck::place_bottom
place_bottom(D, card, dangling) ==
    IF D.before_end \notin D.removed
    THEN LET r == insert_after(D, D.before_end, card)
         IN  [r.D EXCEPT !.before_end = r.it]
    ELSE CASE dangling = "stale" ->
                  LET r == insert_after(D, D.before_end, card)
                  IN  [r.D EXCEPT !.before_end = r.it]
           [] dangling = "reused" ->
                  DeckObj([D.next EXCEPT ![D.before_end] = D.before_end],
                          [D.value EXCEPT ![D.before_end] = card],
                          D.before_end, D.removed \ {D.before_end})
           [] dangling = "abort" -> D

\* Deck::Deck : place_bottom for each card in sorted order.
RECURSIVE deck_ctor(_, _)
deck_ctor(D, card) ==
    IF card > DeckSize THEN D
    ELSE deck_ctor(place_bottom(D, card, "stale"), card + 1)

ThisDeck == DeckObj(m_next, m_value, m_before_end, removed)

DeckBecomes(D) ==
    /\ m_next' = D.next
    /\ m_value' = D.value
    /\ m_before_end' = D.before_end
    /\ removed' = D.removed

InitDeck ==
    /\ NewBoard
    /\ NoGraph
    /\ NoProject3
    /\ NoCode
    /\ \E D \in {deck_ctor(EmptyDeck, 1)} :
           /\ m_next = D.next
           /\ m_value = D.value
           /\ m_before_end = D.before_end
           /\ removed = D.removed
    /\ deck_op = [name |-> "Deck", card |-> NullOpt, placed |-> 0]

Deal ==
    /\ deck_op.name # "abort"
    /\ \E r \in {deal(ThisDeck)} :
           /\ DeckBecomes(r.D)
           /\ deck_op' = [deck_op EXCEPT !.name = "deal", !.card = r.card]
    /\ UNCHANGED <<sudokuVars, graphVars, project3Vars, codeVars>>

PlaceBottom(card, dangling) ==
    /\ deck_op.name # "abort"
    /\ deck_op.placed < MaxPlaced
    /\ DeckBecomes(place_bottom(ThisDeck, card, dangling))
    /\ deck_op' = [name |-> IF m_before_end \in removed /\ dangling = "abort"
                            THEN "abort" ELSE "place_bottom",
                   card |-> <<card>>,
                   placed |-> deck_op.placed + 1]
    /\ UNCHANGED <<sudokuVars, graphVars, project3Vars, codeVars>>

NextDeck ==
    \/ Deal
    \/ \E card \in Cards, dangling \in DanglingWrites : PlaceBottom(card, dangling)

SpecDeck == InitDeck /\ [][NextDeck]_vars

\* The node at the end of the chain that starts at node.
RECURSIVE LastFrom(_)
LastFrom(node) == IF m_next[node] = nullptr THEN node ELSE LastFrom(m_next[node])

\* C22: after any sequence of deal and place_bottom calls, m_before_end is
\* the last node of the card list (the before-begin position when the list
\* is empty) and not a destroyed node, and the card of a place_bottom call
\* is the last element of the list.
C22_BeforeEndIsLast ==
    deck_op.name \in {"Deck", "deal", "place_bottom"} =>
        /\ m_before_end \notin removed
        /\ m_before_end = LastFrom(before_begin)
        /\ deck_op.name = "place_bottom" =>
               /\ LastFrom(before_begin) # before_begin
               /\ <<m_value[LastFrom(before_begin)]>> = deck_op.card

(***************************************************************************)
(* Code (8-schcre-1/code.h, code.cpp): the responses to a guess            *)
(***************************************************************************)

\* The longest code and guess the checks are called with.
MaxCodeLen == 3

\* The values of Code::Digit the codes are made of.
Digits == 0 .. 2

RECURSIVE CodesOfLength(_)
CodesOfLength(n) ==
    IF n = 0 THEN {<<>>}
    ELSE {Append(c, d) : c \in CodesOfLength(n - 1), d \in Digits}

\* Code(std::initializer_list<Digit>) for every list up to the bound.
Codes == UNION {CodesOfLength(n) : n \in 0 .. MaxCodeLen}

\* Code::check_correct, the loop from position i with match_count matches.
RECURSIVE match_loop(_, _, _, _)
match_loop(left, right, i, match_count) ==
    IF i > Len(left) THEN match_count
    ELSE match_loop(left, right, i + 1,
                    IF left[i] = right[i] THEN match_count + 1 ELSE match_count)

\* Code::check_correct : the count, or the exception thrown.
check_correct(code, guess_code) ==
    IF Len(code) # Len(guess_code) THEN "MismatchedCodeLengthError"
    ELSE match_loop(code, guess_code, 1, 0)

\* The filter loop of check_incorrect: the digits of `from` at the positions
\* where left and right differ, in order.
RECURSIVE differing_digits(_, _, _, _)
differing_digits(left, right, from, i) ==
    IF i > Len(left) THEN <<>>
    ELSE IF left[i] # right[i]
         THEN <<from[i]>> \o differing_digits(left, right, from, i + 1)
         ELSE differing_digits(left, right, from, i + 1)

\* std::sort of a digit vector.
sort(digits) == SortSeq(digits, LAMBDA a, b : a < b)

\* std::set_intersection of two sorted ranges, from positions i and j.
RECURSIVE set_intersection(_, _, _, _)
set_intersection(first, second, i, j) ==
    IF i > Len(first) \/ j > Len(second) THEN <<>>
    ELSE IF first[i] < second[j] THEN set_intersection(first, second, i + 1, j)
    ELSE IF second[j] < first[i] THEN set_intersection(first, second, i, j + 1)
    ELSE <<first[i]>> \o set_intersection(first, second, i + 1, j + 1)

\* Mutant of check_incorrect: the matching positions are not filtered out.
check_incorrect_unfiltered(code, guess_code) ==
    IF Len(code) # Len(guess_code) THEN "MismatchedCodeLengthError"
    ELSE Len(set_intersection(sort(code), sort(guess_code), 1, 1))

\* Code::check_incorrect : the count, or the exception thrown.
check_incorrect(code, guess_code) ==
    IF Len(code) # Len(guess_code) THEN "MismatchedCodeLengthError"
    ELSE LET differing_digits_left == sort(differing_digits(code, guess_code, code, 1))
             differing_digits_right == sort(differing_digits(code, guess_code, guess_code, 1))
         IN  Len(set_intersection(differing_digits_left, differing_digits_right, 1, 1))

\* Neither check has been called.
NoResponse == [correct |-> <<>>, incorrect |-> <<>>]

InitCode ==
    /\ NewBoard
    /\ NoGraph
    /\ NoProject3
    /\ NoDeck
    /\ m_digits \in Codes
    /\ guess \in Codes
    /\ response = NoResponse

CheckCorrect ==
    /\ response.correct = <<>>
    /\ response' = [response EXCEPT !.correct = <<check_correct(m_digits, guess)>>]
    /\ UNCHANGED <<m_digits, guess, deckVars, sudokuVars, graphVars, project3Vars>>

CheckIncorrect ==
    /\ response.incorrect = <<>>
    /\ response' = [response EXCEPT !.incorrect = <<check_incorrect(m_digits, guess)>>]
    /\ UNCHANGED <<m_digits, guess, deckVars, sudokuVars, graphVars, project3Vars>>

NextCode == CheckCorrect \/ CheckIncorrect

SpecCode == InitCode /\ [][NextCode]_vars

\* The positions where code and guess hold the same digit.
Matching == {i \in 1 .. Len(m_digits) : m_digits[i] = guess[i]}

\* How often digit d stands in digits at a position that does not match.
Occurrences(digits, d) ==
    Cardinality({i \in (1 .. Len(digits)) \ Matching : digits[i] = d})

Min(a, b) == IF a < b THEN a ELSE b

RECURSIVE SharedFrom(_)
SharedFrom(d) ==
    IF d \notin Digits THEN 0
    ELSE Min(Occurrences(m_digits, d), Occurrences(guess, d)) + SharedFrom(d + 1)

\* The size of the multiset intersection of the digits of the code and of
\* the guess over the positions that do not match.
Shared == SharedFrom(0)

Answered == response.correct # <<>> /\ response.incorrect # <<>>

\* C23: for a code and a guess of equal length, the correct count is the
\* number of positions where they agree, the incorrect count is the size of
\* the multiset intersection of their digits over the other positions, and
\* the two counts together do not exceed the length.
C23_ResponseCounts ==
    (Answered /\ Len(m_digits) = Len(guess)) =>
        /\ response.correct = <<Cardinality(Matching)>>
        /\ response.incorrect = <<Shared>>
        /\ Cardinality(Matching) + Shared <= Len(m_digits)

\* Both counts are positive and a digit that matches in one position is
\* also shared out of position.
C23_Witness ==
    /\ Answered
    /\ Len(m_digits) = Len(guess)
    /\ response.correct = <<1>>
    /\ response.incorrect = <<2>>
    /\ \E i \in Matching : Occurrences(m_digits, m_digits[i]) > 0

(***************************************************************************)
(* One GraphWalker used for several searches, each on a graph of its own   *)
(***************************************************************************)

\* The find_path_* calls a driver makes on one walker.
MaxCalls == 2

\* The most edges a graph handed to the walker has.
MazeEdges == 2

\* The graphs the calls are given: every graph of a maze (each edge of
\* weight k_path_weight) with at most MazeEdges edges.
MazeGraphs ==
    {GraphObj(n, edges) : <<n, edges>> \in
        UNION {{<<n, e>> : e \in
                  {f \in [NodeIndices(n) \X NodeIndices(n) -> {NullOpt, <<k_path_weight>>}] :
                      Cardinality({q \in DOMAIN f : f[q] # NullOpt}) <= MazeEdges}} :
               n \in NodeCounts}}

\* The two vectors of a walker.
WalkerObj(visited, sp) == [visited |-> visited, sp |-> sp]

ThisWalker == WalkerObj(m_visited, m_shortest_paths)

\* std::vector::resize : the elements below the new size are kept and the
\* new ones are value-initialised.
resize(vec, n, value) ==
    [i \in NodeIndices(n) |-> IF i \in DOMAIN vec THEN vec[i] ELSE value]

\* Mutant of init: the vectors are resized and not filled.
init_resize_only(W, g) ==
    WalkerObj(resize(W.visited, g.n, FALSE), resize(W.sp, g.n, NullOpt))

\* GraphWalker::init on a walker that has been used before.
init(W, g) ==
    LET resized == WalkerObj(resize(W.visited, g.n, FALSE), resize(W.sp, g.n, NullOpt))
    IN  WalkerObj([i \in DOMAIN resized.visited |-> FALSE],
                  [i \in DOMAIN resized.sp |-> NullOpt])

\* find_path_dfs on walker W.
find_path_dfs_on(W, g, from, goal) ==
    LET res == find_path_dfs_helper(g, from, goal, init(W, g).visited)
    IN  [path |-> Reverse(res.path), weight |-> res.weight, returned |-> TRUE,
         visited |-> res.visited, sp |-> init(W, g).sp]

\* find_path_bfs on walker W, up to the call of reconstruct_shortest_path.
find_path_bfs_on(W, g, from, dangling) ==
    bfs_loop(g, <<from>>, init(W, g).visited,
             [init(W, g).sp EXCEPT ![from] = ShortestPath(0, from)], dangling)

\* The walker is new and no call has been made.
InitReuse ==
    /\ NewBoard
    /\ NoProject12
    /\ NoProject3
    /\ \E g \in MazeGraphs :
          /\ m_nodes = g.n
          /\ m_edges = g.edges
    /\ m_visited = <<>>
    /\ m_shortest_paths = <<>>
    /\ search = [alg |-> "none", pc |-> "idle", start |-> 0, goal |-> 0,
                 calls |-> 0, size_before |-> 0]
    /\ unvisited_indices = {}
    /\ result = [path |-> <<>>, weight |-> 0, returned |-> FALSE]

\* The bookkeeping of a call on graph g: the graph of the call, and what
\* the call was.
Calls(g, alg, pc, from, goal) ==
    /\ search.pc # "loop"
    /\ search.calls < MaxCalls
    /\ from \in NodeIndices(g.n)
    /\ goal \in NodeIndices(g.n)
    /\ m_nodes' = g.n
    /\ m_edges' = g.edges
    /\ search' = [alg |-> alg, pc |-> pc, start |-> from, goal |-> goal,
                  calls |-> search.calls + 1,
                  size_before |-> Cardinality(DOMAIN m_visited)]

\* walker.find_path_dfs(g, start, goal) on the walker as it is
FindPathDfsOn(g, from, goal) ==
    /\ Calls(g, "dfs", "done", from, goal)
    /\ \E res \in {find_path_dfs_on(ThisWalker, g, from, goal)} :
          /\ m_visited' = res.visited
          /\ m_shortest_paths' = res.sp
          /\ result' = [path |-> res.path, weight |-> res.weight,
                        returned |-> res.returned]
    /\ UNCHANGED <<unvisited_indices, sudokuVars, project12Vars, project3Vars>>

\* walker.find_path_bfs(g, start, goal) on the walker as it is
FindPathBfsOn(g, from, goal, dangling) ==
    /\ Calls(g, "bfs", "done", from, goal)
    /\ \E res \in {find_path_bfs_on(ThisWalker, g, from, dangling)} :
          /\ m_visited' = res.visited
          /\ m_shortest_paths' = res.sp
          /\ \E parent \in parent_index_reads(res.sp) :
                result' = reconstruct_shortest_path(res.sp, parent, goal)
    /\ UNCHANGED <<unvisited_indices, sudokuVars, project12Vars, project3Vars>>

\* walker.find_path_dijkstra(g, start, goal) on the walker as it is, up to
\* the first make_heap; DijkstraPop runs its loop.
FindPathDijkstraOn(g, from, goal) ==
    /\ Calls(g, "dijkstra", "loop", from, goal)
    /\ \E W \in {init(ThisWalker, g)} :
          /\ m_visited' = W.visited
          /\ m_shortest_paths' = [W.sp EXCEPT ![from] = ShortestPath(0, from)]
    /\ unvisited_indices' = NodeIndices(g.n)
    /\ UNCHANGED <<result, sudokuVars, project12Vars, project3Vars>>

\* The calls of the maze driver: each search runs from the first node of its
\* graph to the last one.
NextReuse ==
    \/ \E g \in MazeGraphs : FindPathDfsOn(g, 0, g.n - 1)
    \/ \E g \in MazeGraphs, dangling \in DanglingReads : FindPathBfsOn(g, 0, g.n - 1, dangling)
    \/ \E g \in MazeGraphs : FindPathDijkstraOn(g, 0, g.n - 1)
    \/ DijkstraPop

SpecReuse == InitReuse /\ [][NextReuse]_vars

\* What a search returns, without the walker's vectors.
Returned(res) == [path |-> res.path, weight |-> res.weight, returned |-> res.returned]

\* The results find_path_bfs can return on a new walker.
FreshBfsResults(g, from, goal) ==
    UNION {{reconstruct_shortest_path(res.sp, parent, goal) :
                parent \in parent_index_reads(res.sp)} :
           res \in {find_path_bfs(g, from, dangling) : dangling \in DanglingReads}}

====
